---- MODULE Spec2Model ----
(***************************************************************************)
(* Model of the drag-and-drop engine of the drag handle widget             *)
(* (blocksuite/affine/widget-drag-handle/src/watchers/drag-event-watcher.ts)*)
(*                                                                         *)
(* The module holds several specifications over one set of variables; each *)
(* specification drives one part of DragEventWatcher and leaves the        *)
(* variables of the other parts at their initial values:                   *)
(*   SpecMerge   - _mergeSnapshotToCurDoc: buildContainerTree and          *)
(*                 addInDependencyOrder                                    *)
(*   SpecMergeCyclic - the same merge on snapshots whose group membership    *)
(*                 has a cycle                                             *)
(*   SpecDrop    - _onDrop on the block tree of the document: _onPageDrop, *)
(*                 _onDropNoteOnNote, _onEdgelessDrop, _dropAsGfxBlock,    *)
(*                 _dropToModel, behind the canDrop of _makeDropTarget     *)
(*   SpecGesture - one drag gesture: setDragData with                      *)
(*                 _setOpacityOfDraggedBlocks, the monitor's onDrag and    *)
(*                 onDropTargetChange, and the pointer-up: the draggable's *)
(*                 onDrop (_cleanup) and the monitor's onDrop (_onDrop)    *)
(*   SpecHeading - _getSnapshotFromHoveredBlocks and _onDrop on a note that *)
(*                 holds a collapsed heading with hidden siblings          *)
(*   SpecRewrite - _rewriteSnapshotXYWH on a snapshot with canvas elements, *)
(*                 surface children and top-level blocks                   *)
(***************************************************************************)
EXTENDS Integers, Sequences, FiniteSets, TLC

(***************************************************************************)
(* Bounds of the model.                                                    *)
(***************************************************************************)
\* members (canvas elements + blocks) of a merged snapshot
MaxMembers == 3
\* child references (children.json keys + childElementIds keys) of a merged snapshot
MaxRefs == 3
\* blocks selected for one drag
MaxDragged == 2
\* drops handled one after the other on the document
MaxDrops == 1
\* largest model coordinate of a bound or of a destination point
MaxCoord == 1
\* gestures started one after the other in this editor; those that carry a
\* snapshot are the first MaxDrops of them
MaxGestures == 2
\* requests made to the chat endpoints of the copilot controller
MaxRequests == 2

VARIABLES
  \* ---- _mergeSnapshotToCurDoc ----
  mergeSnapshot,   \* the SliceSnapshot handed to the merge, flattened in walk order
  mergePc,         \* position of the async function
  containerTree,   \* Record<string, Set<string>>, sets in insertion order
  elemMap,         \* Record<string, elem>; children.json is rewritten in place
  blockMap,        \* Record<string, {surfaceChild, snapshot}>
  idRemap,         \* Map<string, string>
  callStack,       \* frames of addInDependencyOrder: [id, todo]
  applyLog,        \* history: one entry per single-member apply, in order
  liveCount,       \* live identifiers handed out so far by the destination
  \* ---- the document of this editor (std.store) ----
  children,        \* block id -> ordered child ids (model.children)
  flavour,         \* block id -> flavour
  blockCount,      \* blocks created so far by store.addBlock / snapshotToSlice
  collapsed,       \* the heading paragraphs whose model.collapsed is true
  \* ---- _onDrop ----
  dropCount,       \* drops handled so far
  lastDrop,        \* history: what the last drop decided and did
  \* ---- one drag gesture of this editor ----
  gesturePc,       \* "idle", or "dragging" between setDragData and the pointer-up
  gesture,         \* the editor mode, the payload of setDragData; history: the
                   \* views dimmed at the start and the opacities before it
  hover,           \* location.current: the first drop target and the pointer
  dropIndicator,   \* this.dropIndicator: null, or the element with its rect
  opacity,         \* style.opacity of block views / opacity of canvas elements
  resetOpacityCallbacks, \* this.resetOpacityCallbacks
  \* ---- _rewriteSnapshotXYWH ----
  rewritePc,       \* "idle", "ready" (called) or "done" (returned)
  rewriteIn,       \* the snapshot content and the point handed to the call
  rewriteOut,      \* the snapshot content after the call, rewritten in place
  \* ---- _getDraggedSnapshot ----
  extractPc,       \* "idle", "ready" (called) or "done" (returned)
  extractIn,       \* the drag handle, the hovered block, the canvas models
  selection,       \* widget.selectionHelper: the current selection
  extractOut,      \* what the call returned; history: what it collected
  \* ---- Runtime (runtime config store) ----
  applicationSetting, \* db.applicationSetting: key -> stored JSON text
  cache,           \* the Cache: cache key -> value
  defaultConfigs,  \* the DefaultRuntimeConfigs the provider made
  runtimeCall,     \* history: the last call of get / set and how it ended
  \* ---- CopilotController ----
  ongoingStreamCount, \* ongoingStreamCount$.value
  requests,        \* the requests of the chat endpoints and where each stands
  chatSessions,    \* ChatSessionService: session id -> owner and messages
  shutdownPc,      \* beforeApplicationShutdown: "idle" (not called),
                   \* "waiting", "resolved" (a count of 0 was seen), "done"
  \* ---- the lit portals of a LitPortalProvider ----
  portals,         \* the portals list of the provider
  listeners,       \* the portal ids createLitPortalAnchor registered
  lifecycles,      \* history: portal id -> the last lifecycle event
  \* ---- Tag ----
  docMetas,        \* workspace meta: page id -> tags
  tagCall          \* history: the last call of tag / untag

mergeVars == <<mergeSnapshot, mergePc, containerTree, elemMap, blockMap,
               idRemap, callStack, applyLog, liveCount>>

docVars == <<children, flavour, blockCount, collapsed>>

dropVars == <<dropCount, lastDrop>>

gestureVars == <<gesturePc, gesture, hover, dropIndicator, opacity,
                 resetOpacityCallbacks>>

rewriteVars == <<rewritePc, rewriteIn, rewriteOut>>

extractVars == <<extractPc, extractIn, selection, extractOut>>

runtimeVars == <<applicationSetting, cache, defaultConfigs, runtimeCall>>

copilotVars == <<ongoingStreamCount, requests, chatSessions, shutdownPc>>

portalVars == <<portals, listeners, lifecycles>>

tagVars == <<docMetas, tagCall>>

\* the services that are no part of the drag watcher
serviceVars == <<runtimeVars, copilotVars, portalVars, tagVars>>

vars == <<mergeVars, docVars, dropVars, gestureVars, rewriteVars, extractVars,
          serviceVars>>

otherThanMerge == <<docVars, dropVars, gestureVars, rewriteVars, extractVars,
                    serviceVars>>

(***************************************************************************)
(* Helpers.                                                                *)
(***************************************************************************)
ToSet(s) == {s[i] : i \in 1..Len(s)}

Last(s) == s[Len(s)]

\* identifiers local to a snapshot, and identifiers created in the destination
SnapId(i) == "m" \o ToString(i)
LiveId(n) == "live" \o ToString(n)

EmptyMap == [x \in {} |-> ""]

MapPut(m, k, v) == [x \in (DOMAIN m) \cup {k} |-> IF x = k THEN v ELSE m[x]]

\* JavaScript Set, kept as the sequence of its members in insertion order
SetHas(s, x) == \E i \in 1..Len(s) : s[i] = x
SetAdd(s, x) == IF SetHas(s, x) THEN s ELSE Append(s, x)
SetDelete(s, x) == SelectSeq(s, LAMBDA y : y # x)

(***************************************************************************)
(* Dependency Resolver: _mergeSnapshotToCurDoc.                            *)
(***************************************************************************)
\* surface.getConstructor(elem.type) derives from GfxGroupLikeElementModel
isGroupLikeElem(elem) == elem.type = "group"

\* the flavour's model is group compatible (it owns childElementIds)
isGroupLikeBlock(flav) == flav = "affine:frame"

\* schema.safeValidate(flavour, against): flavour may be a child of against
safeValidate(flav, against) ==
  CASE against = "affine:page" -> flav \in {"affine:surface", "affine:note"}
    [] against = "affine:surface" ->
         flav \in {"affine:frame", "affine:edgeless-text", "affine:attachment"}
    [] against = "affine:note" ->
         flav \in {"affine:paragraph", "affine:list", "affine:database",
                   "affine:attachment", "affine:surface-ref",
                   "affine:embed-linked-doc"}
    [] against = "affine:list" ->
         flav \in {"affine:paragraph", "affine:list", "affine:attachment"}
    [] OTHER -> FALSE

\* schema.safeValidate(flavour, 'affine:surface')
isSurfaceChild(flav) == safeValidate(flav, "affine:surface")

\* containerTree[k] ?? new Set()
TreeGet(tree, k) == IF k \in DOMAIN tree THEN tree[k] ELSE <<>>

\* Object.values(containerTree).every(childSet => !childSet.has(id))
InNoChildSet(tree, id) == \A k \in DOMAIN tree : ~SetHas(tree[k], id)

\* the forEach over the keys of children.json / childElementIds
RECURSIVE ClaimChildren(_, _, _)
ClaimChildren(tree, id, kids) ==
  IF kids = <<>> THEN tree
  ELSE LET childId == Head(kids)
           t1 == MapPut(tree, id, SetAdd(TreeGet(tree, id), childId))
           t2 == MapPut(t1, "root", SetDelete(t1["root"], childId))
       IN ClaimChildren(t2, id, Tail(kids))

\* what a root-level group-like element is entered into the root set as
GroupRootKey(elem) == elem.type

\* buildContainerTree, one entry of block.props.elements of the surface
BuildElem(tree, elem) ==
  IF isGroupLikeElem(elem)
  THEN LET t1 == IF InNoChildSet(tree, elem.id)
                 THEN MapPut(tree, "root", SetAdd(tree["root"], GroupRootKey(elem)))
                 ELSE tree
       IN ClaimChildren(t1, elem.id, elem.children)
  ELSE MapPut(tree, "root", SetAdd(tree["root"], elem.id))

\* buildContainerTree, a block other than the surface
BuildBlock(tree, block) ==
  LET t1 == IF InNoChildSet(tree, block.id)
            THEN MapPut(tree, "root", SetAdd(tree["root"], block.id))
            ELSE tree
  IN IF isGroupLikeBlock(block.flavour)
     THEN ClaimChildren(t1, block.id, block.childElementIds)
     ELSE t1

RECURSIVE BuildElems(_, _)
BuildElems(tree, elems) ==
  IF elems = <<>> THEN tree
  ELSE BuildElems(BuildElem(tree, Head(elems)), Tail(elems))

RECURSIVE BuildBlocks(_, _)
BuildBlocks(tree, blocks) ==
  IF blocks = <<>> THEN tree
  ELSE BuildBlocks(BuildBlock(tree, Head(blocks)), Tail(blocks))

\* snapshot.content.forEach(buildContainerTree): the surface's elements, then
\* the surface's child blocks and the other blocks
buildContainerTree(snap) ==
  BuildBlocks(BuildElems([k \in {"root"} |-> <<>>], snap.elements), snap.blocks)

\* (mutant) unresolved child ids are kept instead of deleted
RECURSIVE RemapChildren_KeepUnresolved(_, _)
RemapChildren_KeepUnresolved(kids, remap) ==
  IF kids = <<>> THEN <<>>
  ELSE LET rest == RemapChildren_KeepUnresolved(Tail(kids), remap)
           new == IF Head(kids) \in DOMAIN remap THEN remap[Head(kids)] ELSE Head(kids)
       IN <<new>> \o SelectSeq(rest, LAMBDA y : y # new)

\* the rewrite of a group-like member's child ids before it is applied:
\* a key found in idRemap is replaced by its live id, any other key is deleted
RECURSIVE RemapChildren(_, _)
RemapChildren(kids, remap) ==
  IF kids = <<>> THEN <<>>
  ELSE LET rest == RemapChildren(Tail(kids), remap)
       IN IF Head(kids) \in DOMAIN remap
          THEN <<remap[Head(kids)]>> \o SelectSeq(rest, LAMBDA y : y # remap[Head(kids)])
          ELSE rest

\* (mutant) the member is applied without awaiting its children
DepsOf_NoAwait(tree, id) == <<>>

\* the children a frame of addInDependencyOrder(id) awaits before id itself
DepsOf(tree, id) == TreeGet(tree, id)

MemberIds(snap) ==
  {snap.elements[i].id : i \in 1..Len(snap.elements)}
    \cup {snap.blocks[i].id : i \in 1..Len(snap.blocks)}

\* ---- the snapshots a merge is started with ----
Ids == {SnapId(i) : i \in 1..MaxMembers}

ElemTypes == {"shape", "group"}
BlockFlavours == {"affine:frame", "affine:note", "affine:edgeless-text"}

\* the keys of container c's child map, in the order of refs
RECURSIVE ChildrenIn(_, _)
ChildrenIn(refs, c) ==
  IF refs = <<>> THEN <<>>
  ELSE IF Head(refs)[1] = c
       THEN <<Head(refs)[2]>> \o ChildrenIn(Tail(refs), c)
       ELSE ChildrenIn(Tail(refs), c)

\* group membership has no cycle: no container reaches itself
RECURSIVE ReachFrom(_, _, _)
ReachFrom(refset, front, n) ==
  IF n = 0 THEN front
  ELSE ReachFrom(refset,
                 front \cup {r[2] : r \in {q \in refset : q[1] \in front}}, n - 1)

Acyclic(refset) ==
  \A c \in {r[1] : r \in refset} :
    c \notin ReachFrom(refset, {r[2] : r \in {q \in refset : q[1] = c}},
                       Cardinality(refset))

MakeSnapshot(types, flavours, refs) ==
  LET ne == Len(types)
  IN [elements |-> [i \in 1..ne |->
                      [id |-> SnapId(i), type |-> types[i],
                       children |-> ChildrenIn(refs, SnapId(i))]],
      blocks   |-> [i \in 1..Len(flavours) |->
                      [id |-> SnapId(ne + i), flavour |-> flavours[i],
                       childElementIds |-> ChildrenIn(refs, SnapId(ne + i))]]]

NoSnapshot == [elements |-> <<>>, blocks |-> <<>>]

InitMergeIdle ==
  /\ mergeSnapshot = NoSnapshot
  /\ mergePc = "idle"
  /\ containerTree = [k \in {"root"} |-> <<>>]
  /\ elemMap = EmptyMap
  /\ blockMap = EmptyMap
  /\ idRemap = EmptyMap
  /\ callStack = <<>>
  /\ applyLog = <<>>
  /\ liveCount = 0

InitMerge ==
  /\ \E ne \in 0..MaxMembers, nb \in 0..MaxMembers :
       /\ ne + nb >= 1
       /\ ne + nb <= MaxMembers
       /\ \E types \in [1..ne -> ElemTypes], flavours \in [1..nb -> BlockFlavours] :
            LET groups == {SnapId(i) : i \in {j \in 1..ne : types[j] = "group"}}
                            \cup {SnapId(ne + i) :
                                    i \in {j \in 1..nb : flavours[j] = "affine:frame"}}
            IN \E k \in 0..MaxRefs :
                 \* a child map lists members of the snapshot, each key once
                 \E refs \in [1..k -> groups \X {SnapId(i) : i \in 1..(ne + nb)}] :
                   /\ \A i, j \in 1..k : i # j => refs[i] # refs[j]
                   /\ Acyclic(ToSet(refs))
                   /\ mergeSnapshot = MakeSnapshot(types, flavours, refs)
  /\ mergePc = "build"
  /\ containerTree = [k \in {"root"} |-> <<>>]
  /\ elemMap = EmptyMap
  /\ blockMap = EmptyMap
  /\ idRemap = EmptyMap
  /\ callStack = <<>>
  /\ applyLog = <<>>
  /\ liveCount = 0

\* lines 733-818: the maps are filled and the container tree is built
BuildContainerTree ==
  /\ mergePc = "build"
  /\ containerTree' = buildContainerTree(mergeSnapshot)
  /\ elemMap' = [id \in {mergeSnapshot.elements[i].id : i \in 1..Len(mergeSnapshot.elements)} |->
                   LET i == CHOOSE j \in 1..Len(mergeSnapshot.elements) :
                              mergeSnapshot.elements[j].id = id
                   IN mergeSnapshot.elements[i]]
  /\ blockMap' = [id \in {mergeSnapshot.blocks[i].id : i \in 1..Len(mergeSnapshot.blocks)} |->
                   LET i == CHOOSE j \in 1..Len(mergeSnapshot.blocks) :
                              mergeSnapshot.blocks[j].id = id
                   IN [surfaceChild |-> isSurfaceChild(mergeSnapshot.blocks[i].flavour),
                       snapshot |-> mergeSnapshot.blocks[i]]]
  /\ mergePc' = "apply"
  \* the frame of the loop over containerTree['root'] (line 878)
  /\ callStack' = <<[id |-> "root", todo |-> containerTree'["root"]]>>
  /\ UNCHANGED <<mergeSnapshot, idRemap, applyLog, liveCount>>
  /\ UNCHANGED otherThanMerge

\* the depth of calls followed: a snapshot without a cycle needs at most one
\* frame for the loop over the root set and one for each member
MaxDepth == MaxMembers + 3

\* lines 821-825 and 878-880: await addInDependencyOrder(childId) for the next
\* member of the set being iterated
Descend ==
  /\ mergePc = "apply"
  /\ callStack # <<>>
  /\ Len(callStack) < MaxDepth
  /\ Last(callStack).todo # <<>>
  /\ LET top == Last(callStack)
         childId == Head(top.todo)
         below == SubSeq(callStack, 1, Len(callStack) - 1)
     IN callStack' = below \o <<[id |-> top.id, todo |-> Tail(top.todo)],
                                 [id |-> childId, todo |-> DepsOf(containerTree, childId)]>>
  /\ UNCHANGED <<mergeSnapshot, mergePc, containerTree, elemMap, blockMap,
                 idRemap, applyLog, liveCount>>
  /\ UNCHANGED otherThanMerge

\* the frame on top has awaited every child and is not the root loop
AtApply ==
  /\ mergePc = "apply"
  /\ Len(callStack) > 1
  /\ Last(callStack).todo = <<>>

PopFrame == SubSeq(callStack, 1, Len(callStack) - 1)

\* lines 827-855: the child ids of a group-like block are rewritten and
\* _dropToModel is called with the single block
ApplyBlockStart ==
  /\ AtApply
  /\ Last(callStack).id \in DOMAIN blockMap
  /\ LET id == Last(callStack).id
         entry == blockMap[id]
         before == entry.snapshot.childElementIds
         after == IF isGroupLikeBlock(entry.snapshot.flavour)
                  THEN RemapChildren(before, idRemap)
                  ELSE before
     IN /\ blockMap' = [blockMap EXCEPT ![id].snapshot.childElementIds = after]
        /\ applyLog' = Append(applyLog,
             [id |-> id, kind |-> "block",
              group |-> isGroupLikeBlock(entry.snapshot.flavour),
              deps |-> ToSet(TreeGet(containerTree, id)),
              before |-> before, children |-> after, remapAt |-> idRemap,
              parent |-> IF entry.surfaceChild THEN "surface" ELSE "root",
              result |-> "pending"])
  /\ mergePc' = "await"
  /\ UNCHANGED <<mergeSnapshot, containerTree, elemMap, idRemap, callStack, liveCount>>
  /\ UNCHANGED otherThanMerge

\* (mutant) the id handed to _dropToModel is recorded whatever comes back
recordSlices_Always(remap, id, slicesId) == MapPut(remap, id, slicesId)

\* lines 857-859: if (slices) idRemap.set(id, slices.content[0].id)
recordSlices(remap, id, slicesId) ==
  IF slicesId # "null" THEN MapPut(remap, id, slicesId) ELSE remap

\* lines 849-859 and 1143-1169: the awaited _dropToModel settles, with the
\* slice of the created block or with null when the store rejected the apply
ApplyBlockResolve ==
  /\ mergePc = "await"
  /\ \E ok \in BOOLEAN :
       LET id == Last(callStack).id
           newId == LiveId(liveCount + 1)
       IN /\ idRemap' = recordSlices(idRemap, id, IF ok THEN newId ELSE "null")
          /\ IF ok
             THEN /\ liveCount' = liveCount + 1
                  /\ applyLog' = [applyLog EXCEPT ![Len(applyLog)].result = newId]
             ELSE /\ applyLog' = [applyLog EXCEPT ![Len(applyLog)].result = "failed"]
                  /\ UNCHANGED liveCount
  /\ callStack' = PopFrame
  /\ mergePc' = "apply"
  /\ UNCHANGED <<mergeSnapshot, containerTree, elemMap, blockMap>>
  /\ UNCHANGED otherThanMerge

\* lines 860-875: the child ids of the element are rewritten and
\* surface.addElement creates it
ApplyElem ==
  /\ AtApply
  /\ Last(callStack).id \notin DOMAIN blockMap
  /\ Last(callStack).id \in DOMAIN elemMap
  /\ LET id == Last(callStack).id
         before == elemMap[id].children
         after == RemapChildren(before, idRemap)
         newId == LiveId(liveCount + 1)
     IN /\ elemMap' = [elemMap EXCEPT ![id].children = after]
        /\ idRemap' = MapPut(idRemap, id, newId)
        /\ applyLog' = Append(applyLog,
             [id |-> id, kind |-> "elem",
              group |-> isGroupLikeElem(elemMap[id]),
              deps |-> ToSet(TreeGet(containerTree, id)),
              before |-> before, children |-> after, remapAt |-> idRemap,
              parent |-> "surface", result |-> newId])
  /\ liveCount' = liveCount + 1
  /\ callStack' = PopFrame
  /\ UNCHANGED <<mergeSnapshot, mergePc, containerTree, blockMap>>
  /\ UNCHANGED otherThanMerge

\* line 873: surface.addElement throws, the async function rejects
ApplyElemThrows ==
  /\ AtApply
  /\ Last(callStack).id \notin DOMAIN blockMap
  /\ Last(callStack).id \in DOMAIN elemMap
  /\ LET id == Last(callStack).id
     IN elemMap' = [elemMap EXCEPT ![id].children = RemapChildren(elemMap[id].children, idRemap)]
  /\ mergePc' = "rejected"
  /\ callStack' = <<>>
  /\ UNCHANGED <<mergeSnapshot, containerTree, blockMap, idRemap, applyLog, liveCount>>
  /\ UNCHANGED otherThanMerge

\* lines 827 and 860: the id is in neither blockMap nor elemMap, nothing is applied
ApplyNothing ==
  /\ AtApply
  /\ Last(callStack).id \notin DOMAIN blockMap
  /\ Last(callStack).id \notin DOMAIN elemMap
  /\ callStack' = PopFrame
  /\ UNCHANGED <<mergeSnapshot, mergePc, containerTree, elemMap, blockMap,
                 idRemap, applyLog, liveCount>>
  /\ UNCHANGED otherThanMerge

\* line 882: return idRemap
MergeReturn ==
  /\ mergePc = "apply"
  /\ Len(callStack) = 1
  /\ Last(callStack).todo = <<>>
  /\ mergePc' = "done"
  /\ callStack' = <<>>
  /\ UNCHANGED <<mergeSnapshot, containerTree, elemMap, blockMap, idRemap,
                 applyLog, liveCount>>
  /\ UNCHANGED otherThanMerge

NextMerge ==
  \/ BuildContainerTree
  \/ Descend
  \/ ApplyBlockStart
  \/ ApplyBlockResolve
  \/ ApplyElem
  \/ ApplyElemThrows
  \/ ApplyNothing
  \/ MergeReturn

(***************************************************************************)
(* The document of this editor.                                            *)
(***************************************************************************)
Root == "root"
Surface == "surface"
NoBlock == "null"

\* the document the editor is opened on: a page with the surface and two
\* notes; the first note holds a paragraph and a list item with a nested list
\* item, the second a database and an attachment
InitChildren ==
  [root |-> <<"surface", "n1", "n2">>, surface |-> <<>>,
   n1 |-> <<"p1", "l1">>, p1 |-> <<>>, l1 |-> <<"l2">>, l2 |-> <<>>,
   n2 |-> <<"d1", "a1">>, d1 |-> <<>>, a1 |-> <<>>]

InitFlavour ==
  [root |-> "affine:page", surface |-> "affine:surface",
   n1 |-> "affine:note", n2 |-> "affine:note",
   p1 |-> "affine:paragraph", l1 |-> "affine:list", l2 |-> "affine:list",
   d1 |-> "affine:database", a1 |-> "affine:attachment"]

InitDoc ==
  /\ children = InitChildren
  /\ flavour = InitFlavour
  /\ blockCount = 0
  /\ collapsed = {}

Origin == [x |-> 0, y |-> 0]

\* where a drop on the canvas happens: the client point of the pointer and
\* the model point of the corner of the viewport (the canvas as it is opened,
\* or scrolled down)
DropPlaces ==
  {[viewport |-> Origin, point |-> [x |-> MaxCoord, y |-> 0]],
   [viewport |-> [x |-> 0, y |-> MaxCoord], point |-> Origin],
   [viewport |-> [x |-> 0, y |-> MaxCoord], point |-> [x |-> MaxCoord, y |-> 0]]}

\* the block a drop adds with store.addBlock in place of the dragged content
NoPlaceholder == [flavour |-> "none", reference |-> "undefined", hasXYWH |-> FALSE]

NoResult == [placement |-> "none", model |-> NoBlock]

NoDrop ==
  [branch |-> "idle", mode |-> "page", placement |-> "none",
   fromMode |-> "block", sameDoc |-> TRUE, samePlace |-> FALSE,
   onDragged |-> FALSE, std |-> "this", outOfNote |-> FALSE,
   elements |-> <<>>, placeholder |-> NoPlaceholder, parent |-> NoBlock, index |-> 0,
   hasFrom |-> TRUE, target |-> "none", resolved |-> FALSE, result |-> NoResult,
   flavours |-> <<>>, bounds |-> <<>>, viewport |-> Origin, point |-> Origin,
   dropBlock |-> NoBlock, edge |-> "bottom", content |-> <<>>,
   first |-> [id |-> NoBlock, flavour |-> "none"],
   mutatorCalls |-> 0, rejected |-> FALSE, before |-> InitChildren]

InitDropIdle ==
  /\ dropCount = 0
  /\ lastDrop = NoDrop

\* the canvas elements of the surface: id, width and height of xywh
SurfaceElements ==
  <<[id |-> "e1", w |-> 1, h |-> 2], [id |-> "e2", w |-> 2, h |-> 3],
    [id |-> "e3", w |-> 3, h |-> 2], [id |-> "e4", w |-> 2, h |-> 2]>>

ElementIds == {SurfaceElements[i].id : i \in 1..Len(SurfaceElements)}

NoPayload ==
  [hasSnapshot |-> FALSE, fromMode |-> "gfx", hasFrom |-> TRUE, sameDoc |-> TRUE,
   content |-> <<>>, elements |-> <<>>, modelIds |-> {}]

NoGesture ==
  [mode |-> "page", payload |-> NoPayload, dimmed |-> {}, before |-> <<>>,
   reset |-> {}, active |-> 0]

\* _getDropResult returns null

\* this.dropIndicator is null
NoIndicator == [present |-> FALSE, rect |-> NoResult]

NoHover == [std |-> "undefined", block |-> NoBlock, edge |-> "bottom", outOfNote |-> FALSE]

\* the views in own have an opacity of their own; the others have the default:
\* no style.opacity on a block view, opacity 1 on a canvas element
InitOpacity(own) ==
  [v \in DOMAIN InitFlavour \cup ElementIds |->
     IF v \in own THEN "0.5" ELSE IF v \in ElementIds THEN "1" ELSE ""]

\* no gesture is going on; no view has an opacity of its own
InitGestureIdle ==
  /\ gesturePc = "idle"
  /\ gesture = NoGesture
  /\ hover = NoHover
  /\ dropIndicator = NoIndicator
  /\ opacity = InitOpacity({})
  /\ resetOpacityCallbacks = <<>>

\* _rewriteSnapshotXYWH is not running
InitRewriteIdle ==
  /\ rewritePc = "idle"
  /\ rewriteIn = [content |-> <<>>, point |-> [x |-> 0, y |-> 0]]
  /\ rewriteOut = [content |-> <<>>, ignoreOriginalPos |-> FALSE]

\* _getDraggedSnapshot is not running; nothing is selected
NoExtract == [hasSnapshot |-> FALSE, selectedElements |-> <<>>, blocks |-> <<>>]

InitExtractIdle ==
  /\ extractPc = "idle"
  /\ extractIn = [handle |-> "block", anchor |-> NoBlock, models |-> <<>>]
  /\ selection = [type |-> "block", blocks |-> {}]
  /\ extractOut = NoExtract

\* no request was made to a service
NoRuntimeCall ==
  [op |-> "none", k |-> "", v |-> <<>>, hadRow |-> FALSE, outcome |-> "none",
   result |-> <<>>]

InitRuntimeIdle ==
  /\ applicationSetting = <<>>
  /\ cache = <<>>
  /\ defaultConfigs = <<>>
  /\ runtimeCall = [last |-> NoRuntimeCall, previous |-> NoRuntimeCall]

InitCopilotIdle ==
  /\ ongoingStreamCount = 0
  /\ requests = <<>>
  /\ chatSessions = <<>>
  /\ shutdownPc = "idle"

InitPortalIdle ==
  /\ portals = <<>>
  /\ listeners = {}
  /\ lifecycles = <<>>

NoTagCall == [op |-> "none", pageId |-> "", before |-> <<>>]

InitTagIdle ==
  /\ docMetas = <<>>
  /\ tagCall = NoTagCall

InitServicesIdle ==
  InitRuntimeIdle /\ InitCopilotIdle /\ InitPortalIdle /\ InitTagIdle

\* the parts of the program a drag of this editor does not use
InitOthersIdle == InitExtractIdle /\ InitServicesIdle

InitSpecMerge ==
  InitMerge /\ InitDoc /\ InitDropIdle /\ InitGestureIdle /\ InitRewriteIdle
    /\ InitOthersIdle

SpecMerge == InitSpecMerge /\ [][NextMerge]_vars

\* the merge is started with a snapshot whose group membership has a cycle:
\* a container reaches itself through children.json / childElementIds
InitMergeCyclic ==
  /\ \E ne \in 0..MaxMembers, nb \in 0..MaxMembers :
       /\ ne + nb >= 1
       /\ ne + nb <= MaxMembers
       /\ \E types \in [1..ne -> ElemTypes], flavours \in [1..nb -> BlockFlavours] :
            LET groups == {SnapId(i) : i \in {j \in 1..ne : types[j] = "group"}}
                            \cup {SnapId(ne + i) :
                                    i \in {j \in 1..nb : flavours[j] = "affine:frame"}}
            IN \E k \in 0..MaxRefs :
                 \E refs \in [1..k -> groups \X {SnapId(i) : i \in 1..(ne + nb)}] :
                   /\ \A i, j \in 1..k : i # j => refs[i] # refs[j]
                   /\ ~Acyclic(ToSet(refs))
                   /\ mergeSnapshot = MakeSnapshot(types, flavours, refs)
  /\ mergePc = "build"
  /\ containerTree = [k \in {"root"} |-> <<>>]
  /\ elemMap = EmptyMap
  /\ blockMap = EmptyMap
  /\ idRemap = EmptyMap
  /\ callStack = <<>>
  /\ applyLog = <<>>
  /\ liveCount = 0

InitSpecMergeCyclic ==
  InitMergeCyclic /\ InitDoc /\ InitDropIdle /\ InitGestureIdle /\ InitRewriteIdle
    /\ InitOthersIdle

SpecMergeCyclic == InitSpecMergeCyclic /\ [][NextMerge]_vars

(***************************************************************************)
(* Claims about the dependency-ordered merge (checked under SpecMerge).    *)
(***************************************************************************)
IsLive(result) == result \notin {"pending", "failed"}

\* the applies of member d that settled successfully before entry k
SuccessesBefore(d, k) ==
  {j \in 1..(k - 1) : applyLog[j].id = d /\ IsLive(applyLog[j].result)}

Max(S) == CHOOSE x \in S : \A y \in S : y <= x

\* C1 (as stated): when the apply of a group-like container with a non-empty
\* dependency set starts, every one of its dependencies has been applied and
\* has its new live id in the id remap table.
C1_EveryDepRecordedBeforeContainer ==
  \A k \in 1..Len(applyLog) :
    LET e == applyLog[k]
    IN (e.group /\ e.deps # {}) => e.deps \subseteq DOMAIN e.remapAt

\* C1 (amended): when the apply of a group-like container with a non-empty
\* dependency set starts, the apply of every one of its dependencies has been
\* attempted and has settled, and every dependency whose
\* apply succeeded has the live id of its latest successful apply in the id
\* remap table under its snapshot id.
C1_DepsSettledBeforeContainer ==
  \A k \in 1..Len(applyLog) :
    LET e == applyLog[k]
    IN (e.group /\ e.deps # {}) =>
         \A d \in e.deps :
           /\ \E j \in 1..(k - 1) :
                applyLog[j].id = d /\ applyLog[j].result # "pending"
           /\ SuccessesBefore(d, k) # {} =>
                /\ d \in DOMAIN e.remapAt
                /\ e.remapAt[d] = applyLog[Max(SuccessesBefore(d, k))].result

\* C1 witness: a container has been applied after all its dependencies were
\* applied and recorded.
C1_Witness ==
  \E k \in 1..Len(applyLog) :
    /\ applyLog[k].group
    /\ applyLog[k].deps # {}
    /\ applyLog[k].deps \subseteq DOMAIN applyLog[k].remapAt
    /\ IsLive(applyLog[k].result)

\* C2 (as stated): a merge in which no single-member apply failed returns an
\* id remap table with an entry for every member id of the snapshot.
C2_EveryMemberRemapped ==
  (/\ mergePc = "done"
   /\ \A k \in 1..Len(applyLog) : applyLog[k].result # "failed")
    => MemberIds(mergeSnapshot) \subseteq DOMAIN idRemap

\* C3: the child-id set a group-like member is applied with is exactly the
\* live ids of those of its child ids that are in the id remap table, and
\* holds no snapshot-local identifier.
C3_ChildIdsResolved ==
  \A k \in 1..Len(applyLog) :
    LET e == applyLog[k]
    IN e.group =>
         /\ ToSet(e.children) =
              {e.remapAt[c] : c \in ToSet(e.before) \cap DOMAIN e.remapAt}
         /\ ToSet(e.children) \cap Ids = {}

\* C3 witness: a group-like member was applied with one child id replaced by
\* its live id and another, unresolved, child id removed.
C3_Witness ==
  \E k \in 1..Len(applyLog) :
    /\ applyLog[k].group
    /\ applyLog[k].children # <<>>
    /\ Len(applyLog[k].children) < Len(applyLog[k].before)

\* the containers of the snapshot that list id in their child map
ContainersOf(snap, id) ==
  {snap.elements[i].id :
     i \in {j \in 1..Len(snap.elements) : SetHas(snap.elements[j].children, id)}}
  \cup {snap.blocks[i].id :
          i \in {j \in 1..Len(snap.blocks) : SetHas(snap.blocks[j].childElementIds, id)}}

\* C19 (as stated): once the container dependency map is built, its root set
\* is exactly the set of member ids of the snapshot that are in no container's
\* child map, in whatever order the members are in the snapshot.
C19_RootsAreUnclaimedMembers ==
  mergePc \notin {"idle", "build"} =>
    ToSet(containerTree["root"]) =
      {id \in MemberIds(mergeSnapshot) : ContainersOf(mergeSnapshot, id) = {}}

\* C20 (as stated): a member that is the child of exactly one group-like
\* container is applied at most once in a merge.
C20_ChildAppliedOnce ==
  \A id \in MemberIds(mergeSnapshot) :
    Cardinality(ContainersOf(mergeSnapshot, id)) = 1 =>
      Cardinality({k \in 1..Len(applyLog) : applyLog[k].id = id}) <= 1

(***************************************************************************)
(* Block tree helpers (std.store).                                         *)
(***************************************************************************)
Min(a, b) == IF a < b THEN a ELSE b

\* store.getParent(model)
getParent(ch, id) ==
  IF \E b \in DOMAIN ch : SetHas(ch[b], id)
  THEN CHOOSE b \in DOMAIN ch : SetHas(ch[b], id)
  ELSE NoBlock

\* parent.children.indexOf(model), 0-based, -1 when absent
IndexOf(seq, x) ==
  IF SetHas(seq, x) THEN (CHOOSE i \in 1..Len(seq) : seq[i] = x) - 1 ELSE -1

\* parent.children[i]?.id, 0-based
ChildIdAt(ch, parent, i) ==
  IF i >= 0 /\ i < Len(ch[parent]) THEN ch[parent][i + 1] ELSE "undefined"

\* the ids of a block snapshot: the block and everything nested in it
RECURSIVE SubtreeIds(_, _, _)
SubtreeIds(ch, id, fuel) ==
  IF fuel = 0 THEN {id}
  ELSE {id} \cup UNION {SubtreeIds(ch, ch[id][i], fuel - 1) : i \in 1..Len(ch[id])}

Subtree(ch, id) == SubtreeIds(ch, id, Cardinality(DOMAIN ch))

\* the blocks in document order
RECURSIVE PreorderSeq(_, _, _)
PreorderSeq(ch, ids, fuel) ==
  IF ids = <<>> \/ fuel = 0 THEN <<>>
  ELSE <<Head(ids)>> \o PreorderSeq(ch, ch[Head(ids)], fuel - 1)
         \o PreorderSeq(ch, Tail(ids), fuel)

DocOrder(ch) == PreorderSeq(ch, <<Root>>, Cardinality(DOMAIN ch))

(***************************************************************************)
(* The drag payload (DragBlockPayload): what setDragData hands to the DnD   *)
(* layer.                                                                  *)
(***************************************************************************)
\* a block snapshot unit of snapshot.content
UnitOf(ch, fl, id) == [id |-> id, flavour |-> fl[id], children |-> ch[id]]

\* extractIdsFromSnapshot(snapshot): the ids of the units and of the blocks
\* nested in them
extractIdsFromSnapshot(ch, units) == UNION {Subtree(ch, u) : u \in ToSet(units)}

MakePayload(ch, fl, units, fromMode, elems) ==
  [hasSnapshot |-> TRUE, fromMode |-> fromMode, hasFrom |-> TRUE, sameDoc |-> TRUE,
   content |-> [i \in 1..Len(units) |-> UnitOf(ch, fl, units[i])],
   elements |-> elems,
   modelIds |-> extractIdsFromSnapshot(ch, units)]

ContentBlocks(fl) ==
  {b \in DOMAIN fl :
     fl[b] \notin {"affine:page", "affine:surface", "affine:note"}}

\* the paragraphs whose model.type starts with 'h'
Headings == {"h1", "h2"}

\* block.collapsedSiblings of a heading paragraph: the siblings that follow it
\* up to the next heading
collapsedSiblings(ch, b) ==
  LET parent == getParent(ch, b)
      sibs == IF parent = NoBlock THEN <<>> ELSE ch[parent]
      at == IndexOf(sibs, b)
      stop == {k \in (at + 2)..Len(sibs) : sibs[k] \in Headings}
      end == IF stop = {} THEN Len(sibs)
             ELSE (CHOOSE k \in stop : \A j \in stop : k <= j) - 1
  IN IF parent = NoBlock THEN <<>> ELSE SubSeq(sibs, at + 2, end)

\* the blocks a collapsed heading hides: they have no box under the pointer
HiddenBlocks(ch) ==
  UNION {UNION {Subtree(ch, x) : x \in ToSet(collapsedSiblings(ch, h))} :
           h \in collapsed \cap DOMAIN ch}

\* (mutant) no selected block is taken for a collapsed sibling seen already
isCollapsedSibling_Never(collapsedBlock, block) == FALSE

\* line 432: collapsedBlock.includes(block)
isCollapsedSibling(collapsedBlock, block) == block \in collapsedBlock

\* lines 428-448: the flatMap over the selected block views: a collapsed
\* heading brings its hidden siblings, a selected block that was brought by a
\* heading before is left out
RECURSIVE flatMapSelected(_, _, _)
flatMapSelected(ch, blocks, collapsedBlock) ==
  IF blocks = <<>> THEN <<>>
  ELSE LET block == Head(blocks)
       IN IF isCollapsedSibling(collapsedBlock, block)
          THEN flatMapSelected(ch, Tail(blocks), collapsedBlock)
          ELSE IF block \in Headings /\ block \in collapsed
          THEN <<block>> \o collapsedSiblings(ch, block)
                 \o flatMapSelected(ch, Tail(blocks),
                      collapsedBlock \cup ToSet(collapsedSiblings(ch, block)))
          ELSE <<block>> \o flatMapSelected(ch, Tail(blocks), collapsedBlock)

\* _getSnapshotFromHoveredBlocks: the selected blocks in document order, without
\* the blocks nested in another selected block; the hovered block is visible
\* and is one of them
BlockSelections(ch, fl) ==
  {sel \in SUBSET ContentBlocks(fl) :
     /\ sel \ HiddenBlocks(ch) # {}
     /\ Cardinality(sel \ HiddenBlocks(ch)) <= MaxDragged
     /\ \A a, b \in sel : a # b => a \notin Subtree(ch, b)}

\* lines 325-338 and 370-373: the canvas elements a gesture carries: the
\* selected element alone, or the selected group with all its members (the
\* group has no xywh of its own in the snapshot)
GfxSelections == {{e} : e \in ElementIds} \cup {ElementIds}

\* _getSnapshotFromSelectedGfxElms on a note (a block whose parent is not the
\* surface) and on a canvas element (the surface holding the selected element)
Payloads(ch, fl) ==
  {MakePayload(ch, fl,
               flatMapSelected(ch, SelectSeq(DocOrder(ch), LAMBDA b : b \in sel), {}),
               "block", <<>>) :
     sel \in BlockSelections(ch, fl)}
  \cup {MakePayload(ch, fl, <<n>>, "gfx", <<>>) :
          n \in {b \in DOMAIN fl : fl[b] = "affine:note"}}
  \cup {[MakePayload(ch, fl, <<Surface>>, "gfx",
                      SelectSeq(SurfaceElements, LAMBDA e : e.id \in selected))
           EXCEPT !.content = <<[id |-> Surface, flavour |-> "affine:surface",
                                 children |-> <<>>]>>,
                  !.modelIds = {Surface}] :
          selected \in GfxSelections}

\* a selection dragged in from an editor on another document: one block, or
\* an empty note selected on the canvas there whose id is the id of a note of
\* this document (a copy of the document keeps the ids); a payload of
\* blocks that carries no origin (dragPayload.from is undefined, so that
\* from?.docId is not the id of this document); a note followed by an
\* attachment, handed over as blocks; and a canvas selection of a line of
\* height 0, alone or with a shape
ForeignPayloads ==
  {[hasSnapshot |-> TRUE, fromMode |-> "block", hasFrom |-> TRUE, sameDoc |-> FALSE,
    content |-> <<[id |-> "x1", flavour |-> f, children |-> <<>>]>>,
    elements |-> <<>>, modelIds |-> {"x1"}] :
     f \in {"affine:paragraph", "affine:list"}}
  \cup {[hasSnapshot |-> TRUE, fromMode |-> "block", hasFrom |-> FALSE, sameDoc |-> FALSE,
          content |-> <<[id |-> "x1", flavour |-> "affine:paragraph", children |-> <<>>]>>,
          elements |-> <<>>, modelIds |-> {"x1"}]}
  \cup {[hasSnapshot |-> TRUE, fromMode |-> "gfx", hasFrom |-> TRUE, sameDoc |-> FALSE,
          content |-> <<[id |-> "n1", flavour |-> "affine:note", children |-> <<>>]>>,
          elements |-> <<>>, modelIds |-> {"n1"}]}
  \cup {[hasSnapshot |-> TRUE, fromMode |-> "block", hasFrom |-> TRUE, sameDoc |-> FALSE,
          content |-> <<[id |-> "x4", flavour |-> "affine:note", children |-> <<>>],
                        [id |-> "x3", flavour |-> "affine:attachment", children |-> <<>>]>>,
          elements |-> <<>>, modelIds |-> {"x3", "x4"}]}
  \cup {[hasSnapshot |-> TRUE, fromMode |-> "gfx", hasFrom |-> TRUE, sameDoc |-> FALSE,
          content |-> <<[id |-> "xs", flavour |-> "affine:surface", children |-> <<>>]>>,
          elements |-> elems, modelIds |-> {"xs"}] :
          elems \in {<<[id |-> "y0", w |-> 1, h |-> 0]>>,
                     <<[id |-> "y0", w |-> 1, h |-> 0], [id |-> "y1", w |-> 2, h |-> 1]>>}}

(***************************************************************************)
(* Drop Target Resolver: _getDropResult.                                   *)
(***************************************************************************)
Edges == {"top", "bottom", "right"}

\* lines 151-166
RECURSIVE getFallbackInsertPlaceFrom(_, _, _, _)
getFallbackInsertPlaceFrom(ch, fl, curBlock, fuel) ==
  IF curBlock = NoBlock \/ fuel = 0 THEN NoBlock
  ELSE LET parent == getParent(ch, curBlock)
       IN IF parent # NoBlock /\ fl[parent] = "affine:note"
          THEN curBlock
          ELSE getFallbackInsertPlaceFrom(ch, fl, parent, fuel - 1)

getFallbackInsertPlace(ch, fl, block) ==
  getFallbackInsertPlaceFrom(ch, fl, block, Cardinality(DOMAIN ch))

\* (mutant) a drop on a note is always placed inside it
placementOn_NoteAlwaysIn(fl, dropBlock, first, edge) ==
  IF fl[dropBlock] = "affine:note" THEN "in"
  ELSE IF edge = "top" THEN "before" ELSE "after"

\* lines 246-256: the placement when the list right-edge case does not apply
placementOn(fl, dropBlock, first, edge) ==
  IF /\ fl[dropBlock] = "affine:note"
     /\ safeValidate(first.flavour, "affine:note")
  THEN "in"
  ELSE IF edge = "top" THEN "before" ELSE "after"

\* lines 171-268, without the indicator rectangle
getDropResult(ch, fl, dropBlock, payload, edge) ==
  IF \/ ~payload.hasSnapshot
     \/ Len(payload.content) = 0
     \/ ~payload.hasFrom
     \/ fl[dropBlock] = "affine:database"
  THEN NoResult
  ELSE IF edge = "right" /\ fl[dropBlock] = "affine:list"
  THEN IF \A i \in 1..Len(payload.content) :
            safeValidate(payload.content[i].flavour, "affine:list")
       THEN [placement |-> "in", model |-> dropBlock]
       ELSE LET fallbackModel == getFallbackInsertPlace(ch, fl, dropBlock)
            IN IF fallbackModel # NoBlock
               THEN [placement |-> "after", model |-> fallbackModel]
               ELSE NoResult
  ELSE [placement |-> placementOn(fl, dropBlock, payload.content[1], edge),
        model |-> dropBlock]

(***************************************************************************)
(* Structural Mutator: _onDrop and what it calls.                          *)
(***************************************************************************)
\* (mutant) every block under the pointer accepts the drag
canDrop_Always(payload, target) == TRUE

\* lines 1286-1299: canDrop of the drop target registered for a block view
canDrop(payload, target) ==
  \/ ~payload.sameDoc
  \/ \A id \in payload.modelIds : id # target

\* lines 1190-1208: a note is among the ancestors of the block
isUnderNoteBlock(ch, fl, b) ==
  \E n \in DOMAIN fl : fl[n] = "affine:note" /\ b \in Subtree(ch, n) /\ b # n

\* lines 1254-1269: the block views that are registered as drop targets
isDropTarget(ch, fl, mode, b) ==
  ~ \/ fl[b] = "affine:surface"
    \/ mode = "page" /\ fl[b] = "affine:page"
    \/ /\ mode = "edgeless"
       /\ fl[b] # "affine:note"
       /\ fl[b] # "affine:page"
       /\ ~isUnderNoteBlock(ch, fl, b)

\* lines 1283-1285: getIsSticky of the drop target
getIsSticky(ch, fl, mode, b) == mode = "page" \/ isUnderNoteBlock(ch, fl, b)

Plan(branch, placement, parent, index) ==
  [branch |-> branch, placement |-> placement, parent |-> parent, index |-> index]

\* (mutant) an area that equals the largest so far replaces it
RECURSIVE largestElemOf_LastWins(_, _)
largestElemOf_LastWins(elems, best) ==
  IF elems = <<>> THEN best
  ELSE LET size == Head(elems).w * Head(elems).h
       IN largestElemOf_LastWins(Tail(elems),
            IF best.size <= size THEN [size |-> size, id |-> Head(elems).id] ELSE best)

\* lines 582-617: the largest element or block with a bound, strictly greater
\* area replaces the current one
RECURSIVE largestElemOf(_, _)
largestElemOf(elems, best) ==
  IF elems = <<>> THEN best
  ELSE LET size == Head(elems).w * Head(elems).h
       IN largestElemOf(Tail(elems),
            IF best.size < size THEN [size |-> size, id |-> Head(elems).id] ELSE best)

\* lines 655-664: drop on the same place
isDropOnSamePlace(ch, payload, placement, parent, index) ==
  \/ /\ payload.sameDoc
     /\ placement = "after"
     /\ ChildIdAt(ch, parent, index) = payload.content[1].id
  \/ /\ placement = "before"
     /\ ChildIdAt(ch, parent, index - 1) = Last(payload.content).id

\* (mutant) the dragged note is never taken for the note dropped into
isDropOnDraggedNote_Never(parent, first) == FALSE

\* line 648: the note dropped into has the id of the dragged note
isDropOnDraggedNote(parent, first) == parent = first.id

\* lines 500-667: what _onPageDrop decides to do
onPageDrop(ch, fl, dropBlock, payload, edge) ==
  LET result == getDropResult(ch, fl, dropBlock, payload, edge)
  IN IF result = NoResult \/ ~payload.hasSnapshot \/ Len(payload.content) = 0
     THEN Plan("none", "none", NoBlock, 0)
     ELSE
       LET model == result.model
           placement == result.placement
           parent == IF placement = "in" THEN model ELSE getParent(ch, model)
           index == IF placement = "in" THEN 0
                    ELSE IF parent = NoBlock THEN 0
                    ELSE IndexOf(ch[parent], model)
                           + (IF placement = "before" THEN 0 ELSE 1)
           content == payload.content
           allNoteChildren ==
             \A i \in 1..Len(content) : safeValidate(content[i].flavour, "affine:note")
           allNotes ==
             \A i \in 1..Len(content) : content[i].flavour = "affine:note"
       IN IF parent = NoBlock THEN Plan("none", placement, parent, index)
          ELSE IF payload.fromMode = "gfx" /\ fl[parent] # "affine:note"
          THEN Plan("gfxNotOnNote", placement, parent, index)
          ELSE IF payload.fromMode = "gfx" /\ ~allNoteChildren /\ ~allNotes
          THEN IF ~payload.sameDoc
               THEN Plan("mergeAndPlaceholder", placement, parent, index)
               ELSE Plan("placeholder", placement, parent, index)
          ELSE IF fl[parent] = "affine:note" /\ content[1].flavour = "affine:note"
          THEN IF ~isDropOnDraggedNote(parent, content[1])
               THEN Plan("noteOnNote", placement, parent, index)
               ELSE Plan("sameNote", placement, parent, index)
          ELSE IF isDropOnSamePlace(ch, payload, placement, parent, index)
          THEN Plan("samePlace", placement, parent, index)
          ELSE Plan("dropToModel", placement, parent, index)

\* lines 954-1059: what _dropAsGfxBlock decides to do
dropAsGfxBlock(payload) ==
  LET content == payload.content
      empty == {i \in 1..Len(content) :
                  /\ ~safeValidate(content[i].flavour, "affine:surface")
                  /\ ~safeValidate(content[i].flavour, "affine:page")}
  IN IF empty = {}
     THEN Plan("asGfxBlocks", "none", Surface, -1)
     ELSE Plan("wrapInNote", "none", Root, -1)

\* (mutant) no payload is taken for canvas content of this document
isEdgelessContentOfSameDoc_Never(payload) == FALSE

\* lines 476-479: the payload was dragged from the canvas of this document
isEdgelessContentOfSameDoc(payload) ==
  payload.fromMode = "gfx" /\ payload.sameDoc

\* lines 461-498 and 669-680: _onDrop and _onEdgelessDrop
onDrop(ch, fl, mode, dropBlock, payload, edge) ==
  IF mode = "edgeless" /\ fl[dropBlock] = "affine:page"
  THEN IF isEdgelessContentOfSameDoc(payload)
       THEN Plan("gfxOnSameDoc", "none", NoBlock, 0)
       ELSE IF ~payload.hasSnapshot \/ Surface \notin DOMAIN fl
       THEN Plan("none", "none", NoBlock, 0)
       ELSE IF payload.fromMode = "gfx"
       THEN Plan("merge", "none", Surface, -1)
       ELSE dropAsGfxBlock(payload)
  ELSE onPageDrop(ch, fl, dropBlock, payload, edge)


(***************************************************************************)
(* The store behind job.snapshotToSlice, store.addBlock, store.deleteBlock. *)
(***************************************************************************)
NewBlockId(n) == "b" \o ToString(n)

InsertAt(seq, i, items) == SubSeq(seq, 1, i) \o items \o SubSeq(seq, i + 1, Len(seq))

\* the blocks of unitIds leave the place they have in the tree
RemoveUnits(ch, ids) ==
  [b \in DOMAIN ch |-> SelectSeq(ch[b], LAMBDA x : x \notin ids)]

\* the blocks of unitIds become children of parent, as one run that starts at
\* index (at the end when index is undefined, written -1); a block that is in
\* the document already is relocated with everything nested in it
PlaceUnits(ch, unitIds, parent, index) ==
  LET moved == ToSet(unitIds)
      skipped == Cardinality({k \in 1..Len(ch[parent]) :
                                k <= index /\ ch[parent][k] \in moved})
      ch1 == RemoveUnits(ch, moved)
      at == IF index < 0 THEN Len(ch1[parent])
            ELSE Min(index - skipped, Len(ch1[parent]))
  IN [ch1 EXCEPT ![parent] = InsertAt(@, at, unitIds)]

\* the ids the units of a snapshot get in this document: their own when the
\* snapshot is of this document, new ones otherwise (newIdCrossDoc)
AppliedIds(units, sameDoc, n) ==
  [i \in 1..Len(units) |-> IF sameDoc THEN units[i].id ELSE NewBlockId(n + i)]

\* job.snapshotToSlice(snapshot, store, parent, index) on the tree
snapshotToSlice(doc, units, sameDoc, parent, index) ==
  LET ids == AppliedIds(units, sameDoc, doc.n)
      new == {ids[i] : i \in 1..Len(ids)} \ DOMAIN doc.ch
      ch0 == [b \in DOMAIN doc.ch \cup new |-> IF b \in DOMAIN doc.ch THEN doc.ch[b] ELSE <<>>]
      fl0 == [b \in DOMAIN doc.fl \cup new |->
                IF b \in DOMAIN doc.fl THEN doc.fl[b]
                ELSE units[CHOOSE i \in 1..Len(ids) : ids[i] = b].flavour]
  IN [ch |-> PlaceUnits(ch0, ids, parent, index), fl |-> fl0,
      n |-> IF sameDoc THEN doc.n ELSE doc.n + Len(units)]

\* store.addBlock(flavour, props, parent, index)
addBlock(doc, flav, parent, index) ==
  LET id == NewBlockId(doc.n + 1)
      ch0 == [b \in DOMAIN doc.ch \cup {id} |-> IF b \in DOMAIN doc.ch THEN doc.ch[b] ELSE <<>>]
  IN [ch |-> PlaceUnits(ch0, <<id>>, parent, index),
      fl |-> [b \in DOMAIN doc.fl \cup {id} |-> IF b \in DOMAIN doc.fl THEN doc.fl[b] ELSE flav],
      n |-> doc.n + 1]

\* store.deleteBlock(block): the block goes with everything nested in it
deleteBlock(doc, id) ==
  LET gone == Subtree(doc.ch, id)
      ch1 == RemoveUnits(doc.ch, {id})
  IN [ch |-> [b \in DOMAIN ch1 \ gone |-> ch1[b]],
      fl |-> [b \in DOMAIN doc.fl \ gone |-> doc.fl[b]],
      n |-> doc.n]

Doc == [ch |-> children, fl |-> flavour, n |-> blockCount]

SetDoc(doc) ==
  /\ children' = doc.ch
  /\ flavour' = doc.fl
  /\ blockCount' = doc.n
  /\ collapsed' = collapsed

(***************************************************************************)
(* Coordinate Transformer: _rewriteSnapshotXYWH.                           *)
(***************************************************************************)
\* a block or element without xywh
NoXYWH == <<>>

\* getSnapshotRect returns null
NoRect == [x |-> 0, y |-> 0, w |-> -1, h |-> -1]

\* Bound.deserialize(xywh): SerializedXYWH "[x,y,w,h]" to a Bound
deserialize(xywh) == [x |-> xywh[1], y |-> xywh[2], w |-> xywh[3], h |-> xywh[4]]

\* bound.serialize()
serialize(bound) == <<bound.x, bound.y, bound.w, bound.h>>

\* bound.moveDelta(dx, dy)
moveDelta(bound, dx, dy) == [bound EXCEPT !.x = @ + dx, !.y = @ + dy]

\* bound.unite(other)
unite(a, b) ==
  LET left == IF a.x < b.x THEN a.x ELSE b.x
      top == IF a.y < b.y THEN a.y ELSE b.y
      right == IF a.x + a.w > b.x + b.w THEN a.x + a.w ELSE b.x + b.w
      bottom == IF a.y + a.h > b.y + b.h THEN a.y + a.h ELSE b.y + b.h
  IN [x |-> left, y |-> top, w |-> right - left, h |-> bottom - top]

\* card size by style (EMBED_CARD_WIDTH, EMBED_CARD_HEIGHT)
EMBED_CARD_WIDTH == [vertical |-> 364, horizontal |-> 752]

EMBED_CARD_HEIGHT == [vertical |-> 390, horizontal |-> 116]

\* the flavours that start with 'affine:embed-'
EmbedFlavours ==
  {"affine:embed-linked-doc", "affine:embed-synced-doc", "affine:embed-github",
   "affine:embed-youtube", "affine:embed-figma", "affine:embed-loom",
   "affine:embed-html", "affine:embed-iframe"}

\* the serialized bounds getSnapshotRect and rewrite visit, in visiting order:
\* of the surface its elements and then its child blocks, else the block's own
RECURSIVE BoundsOfBlocks(_)
BoundsOfBlocks(blocks) ==
  IF blocks = <<>> THEN <<>>
  ELSE LET block == Head(blocks)
           own ==
             IF block.flavour = "affine:surface"
             THEN [i \in 1..Len(block.elements) |-> block.elements[i].xywh]
                    \o BoundsOfBlocks(block.children)
             ELSE <<block.xywh>>
       IN SelectSeq(own, LAMBDA xywh : xywh # NoXYWH) \o BoundsOfBlocks(Tail(blocks))

RECURSIVE uniteAll(_, _)
uniteAll(bound, rest) ==
  IF rest = <<>> THEN bound
  ELSE uniteAll(unite(bound, deserialize(Head(rest))), Tail(rest))

\* getSnapshotRect(snapshot): the box around every bound of the snapshot,
\* null when it has none
getSnapshotRect(content) ==
  LET bounds == BoundsOfBlocks(content)
  IN IF bounds = <<>> THEN NoRect
     ELSE uniteAll(deserialize(Head(bounds)), Tail(bounds))

\* (mutant) every bound is moved by the distance from rect to the point
rewriteBound_MoveDelta(bound, rect, point, ignoreOriginalPos) ==
  serialize(moveDelta(bound, (-rect.x) + point.x, (-rect.y) + point.y))

\* (mutant) every bound is put on the point
rewriteBound_OnPoint(bound, rect, point, ignoreOriginalPos) ==
  serialize([bound EXCEPT !.x = point.x, !.y = point.y])

\* lines 910-918 and 939-947: the bound is put on the point, or moved by the
\* distance from the corner of rect to the point
rewriteBound(bound, rect, point, ignoreOriginalPos) ==
  IF ignoreOriginalPos
  THEN serialize([bound EXCEPT !.x = point.x, !.y = point.y])
  ELSE serialize(moveDelta(bound, (-rect.x) + point.x, (-rect.y) + point.y))

\* lines 902-919: the elements of the surface
rewriteElements(elements, rect, point, ignoreOriginalPos) ==
  [i \in 1..Len(elements) |->
     IF elements[i].xywh # NoXYWH
     THEN [elements[i] EXCEPT
             !.xywh = rewriteBound(deserialize(@), rect, point, ignoreOriginalPos)]
     ELSE elements[i]]

\* lines 929-930
isCard(flav) == flav = "affine:attachment" \/ flav \in EmbedFlavours

\* (mutant) the bound keeps the width and height it has
cardBound_KeepSize(block, blockBound) == blockBound

\* lines 928-937: an attachment or embed gets the size of its card style
cardBound(block, blockBound) ==
  IF isCard(block.flavour)
  THEN LET style == IF block.style = "undefined" THEN "vertical" ELSE block.style
       IN [blockBound EXCEPT !.w = EMBED_CARD_WIDTH[style],
                             !.h = EMBED_CARD_HEIGHT[style]]
  ELSE blockBound

\* lines 900-949: rewrite(block)
RECURSIVE rewrite(_, _, _, _)
rewrite(block, rect, point, ignoreOriginalPos) ==
  IF block.flavour = "affine:surface"
  THEN [block EXCEPT
          !.elements = rewriteElements(@, rect, point, ignoreOriginalPos),
          !.children = [i \in 1..Len(block.children) |->
                          rewrite(block.children[i], rect, point, ignoreOriginalPos)]]
  ELSE IF block.xywh # NoXYWH
  THEN [block EXCEPT
          !.style = IF isCard(block.flavour) /\ @ = "undefined"
                    THEN "vertical" ELSE @,
          !.xywh = rewriteBound(cardBound(block, deserialize(block.xywh)),
                                rect, point, ignoreOriginalPos)]
  ELSE block

\* lines 891-952
rewriteSnapshotXYWH(content, point, ignoreOriginalPos) ==
  LET rect == getSnapshotRect(content)
  IN IF rect = NoRect THEN content
     ELSE [i \in 1..Len(content) |-> rewrite(content[i], rect, point, ignoreOriginalPos)]

(***************************************************************************)
(* A drop: monitor.onDrop on a drop target of this editor that accepts the *)
(* payload, through _onDrop, to the store.                                 *)
(***************************************************************************)
Modes == {"page", "edgeless"}

Outcome(doc, calls, rejected) ==
  [doc |-> doc, calls |-> calls, rejected |-> rejected, placeholder |-> NoPlaceholder,
   bounds |-> <<>>]

\* line 666 and lines 1143-1169: _dropToModel(snapshot, parent.id, index); a
\* rejection by the store is caught and gives null
dropToModel(doc, units, sameDoc, parent, index, ok) ==
  IF ok THEN Outcome(snapshotToSlice(doc, units, sameDoc, parent, index), 1, FALSE)
  ELSE Outcome(doc, 1, TRUE)

\* (mutant) the dragged note is applied under the target note as it is
onDropNoteOnNote_Nest(doc, payload, parent, index, ok) ==
  dropToModel(doc, payload.content, payload.sameDoc, parent, index, ok)

\* lines 682-705: _onDropNoteOnNote: the children of the dragged note are
\* applied under the target note, then the dragged note is deleted
onDropNoteOnNote(doc, payload, parent, index, ok) ==
  LET first == payload.content[1]
      kids == [i \in 1..Len(first.children) |-> UnitOf(doc.ch, doc.fl, first.children[i])]
      doc1 == snapshotToSlice(doc, kids, payload.sameDoc, parent, index)
  IN IF ~ok THEN Outcome(doc, 1, TRUE)
     ELSE IF first.id \in DOMAIN doc1.fl
     THEN Outcome(deleteBlock(doc1, first.id), 2, FALSE)
     ELSE Outcome(doc1, 1, FALSE)

\* (mutant) the placeholder is a linked-doc card with a card-size bound
addPlaceholder_LinkedDoc(doc, payload, parent, index) ==
  [Outcome(addBlock(doc, "affine:embed-linked-doc", parent, index), 1, FALSE)
     EXCEPT !.placeholder = [flavour |-> "affine:embed-linked-doc",
                             reference |-> "undefined", hasXYWH |-> TRUE]]

\* lines 580-638: a canvas selection of this document dropped on a note gives
\* one placeholder block
addPlaceholder(doc, payload, parent, index) ==
  LET largestElem == largestElemOf(payload.elements, [size |-> 0, id |-> "undefined"])
      flav == IF largestElem.id # "undefined"
              THEN "affine:surface-ref"
              ELSE "affine:embed-linked-doc"
  IN [Outcome(addBlock(doc, flav, parent, index), 1, FALSE)
        EXCEPT !.placeholder = [flavour |-> flav, reference |-> largestElem.id,
                                hasXYWH |-> FALSE]]

\* lines 490-491 with 715-883, for snapshots without containers: every block
\* of the snapshot that is no surface is applied under the root, every canvas
\* element is added to the surface; a throw of surface.addElement rejects
mergeSnapshotToCurDoc(doc, payload, ok) ==
  LET blocks == SelectSeq(payload.content, LAMBDA u : u.flavour # "affine:surface")
      calls == Len(blocks) + Len(payload.elements)
  IN IF ~ok THEN Outcome(doc, calls, TRUE)
     ELSE IF blocks = <<>> THEN Outcome(doc, calls, FALSE)
     ELSE Outcome(snapshotToSlice(doc, blocks, payload.sameDoc, Root, -1), calls, FALSE)

\* surface.addElement (lines 873-874) gives the element a new id
NewElementId(id) == "new-" \o id

\* (mutant) the snapshot is merged and no placeholder is added
mergeThenPlaceholder_MergeOnly(doc, payload, parent, index, ok) ==
  Outcome(doc, 0, ~ok)

\* lines 538-579: a canvas selection of another document dropped on a note is
\* merged into the canvas of this document, then one placeholder block is
\* added for the largest of the merged members (the values of idRemap); when
\* the merge rejects, the rejection is logged and nothing more happens
mergeThenPlaceholder(doc, payload, parent, index, ok) ==
  IF ~ok THEN Outcome(doc, 0, TRUE)
  ELSE addPlaceholder(doc,
         [payload EXCEPT !.elements =
            [i \in 1..Len(payload.elements) |->
               [payload.elements[i] EXCEPT !.id = NewElementId(payload.elements[i].id)]]],
         parent, index)

\* this.gfx.viewport.toModelCoordFromClientCoord([x, y]) of a viewport at
\* zoom 1: the client point moved by the model coordinate of the viewport's corner
toModelCoordFromClientCoord(viewport, p) ==
  [x |-> p.x + viewport.x, y |-> p.y + viewport.y]

\* the xywh prop a block of the page carries in its snapshot: attachments and
\* notes have one, text blocks have none
propsXYWH(flav) ==
  CASE flav = "affine:attachment" -> <<0, 0, 0, 0>>
    [] flav = "affine:note" -> <<1, 1, 3, 2>>
    [] OTHER -> NoXYWH

\* the block snapshot of a unit, with its props
BlockSnapshotOf(unit) ==
  [id |-> unit.id, flavour |-> unit.flavour, xywh |-> propsXYWH(unit.flavour),
   style |-> "undefined", elements |-> <<>>, children |-> <<>>]

\* (mutant) the group is applied with the bounds it came with
applyGroupAt_Unmoved(doc, group, sameDoc, parent, point) ==
  LET ids == AppliedIds(group, sameDoc, doc.n)
  IN [doc |-> snapshotToSlice(doc, group, sameDoc, parent, -1),
      bounds |-> [i \in 1..Len(group) |->
                    [id |-> ids[i], parent |-> parent,
                     xywh |-> propsXYWH(group[i].flavour)]]]

\* lines 985-986 and 1010-1011: the group is rewritten onto the point and
\* applied under parent; what is kept is the bound each applied block gets
applyGroupAt(doc, group, sameDoc, parent, point) ==
  LET content == rewriteSnapshotXYWH([i \in 1..Len(group) |-> BlockSnapshotOf(group[i])],
                                     point, TRUE)
      ids == AppliedIds(group, sameDoc, doc.n)
  IN [doc |-> snapshotToSlice(doc, group, sameDoc, parent, -1),
      bounds |-> [i \in 1..Len(group) |->
                    [id |-> ids[i], parent |-> parent, xywh |-> content[i].xywh]]]

\* lines 954-1028: every unit is a surface child or a page child: the point is
\* taken to model coordinates and the two groups are applied under the surface
\* and under the root
dropAsGfxBlocks(doc, payload, okSurface, okPage, viewport, clientPoint) ==
  LET point == toModelCoordFromClientCoord(viewport, clientPoint)
      content == payload.content
      surfaceGroup == SelectSeq(content,
                        LAMBDA u : safeValidate(u.flavour, "affine:surface"))
      pageGroup == SelectSeq(content,
                     LAMBDA u : /\ ~safeValidate(u.flavour, "affine:surface")
                                /\ safeValidate(u.flavour, "affine:page"))
      none == [doc |-> doc, bounds |-> <<>>]
      r1 == IF surfaceGroup # <<>> /\ okSurface
            THEN applyGroupAt(doc, surfaceGroup, payload.sameDoc, Surface, point)
            ELSE none
      r2 == IF pageGroup # <<>> /\ okPage
            THEN applyGroupAt(r1.doc, pageGroup, payload.sameDoc, Root, point)
            ELSE [doc |-> r1.doc, bounds |-> <<>>]
  IN [Outcome(r2.doc,
              (IF surfaceGroup # <<>> THEN 1 ELSE 0) + (IF pageGroup # <<>> THEN 1 ELSE 0),
              \/ surfaceGroup # <<>> /\ ~okSurface
              \/ pageGroup # <<>> /\ ~okPage)
        EXCEPT !.bounds = r1.bounds \o r2.bounds]

\* lines 954-964 and 1029-1058: the point is taken to model coordinates; a new
\* note is added to the root at the model coordinate of that point, taken once
\* more (lines 1034-1037), and the units that may be children of a note are
\* applied inside it
dropWrappedInNote(doc, payload, ok, viewport, clientPoint) ==
  LET point == toModelCoordFromClientCoord(viewport, clientPoint)
      content == SelectSeq(payload.content,
                           LAMBDA u : safeValidate(u.flavour, "affine:note"))
      pos == toModelCoordFromClientCoord(viewport, point)
      doc1 == addBlock(doc, "affine:note", Root, -1)
      noteId == NewBlockId(doc.n + 1)
      note == [id |-> noteId, parent |-> Root,
               xywh |-> <<pos.x, pos.y, "DEFAULT_NOTE_WIDTH", "DEFAULT_NOTE_HEIGHT">>]
  IN [(IF ok
       THEN Outcome(snapshotToSlice(doc1, content, payload.sameDoc, noteId, -1), 2, FALSE)
       ELSE Outcome(doc1, 2, TRUE))
        EXCEPT !.bounds = <<note>>]

\* what the drop does to the document, given what the handler decided and
\* whether the store accepts (ok, ok2) what it is asked to apply
dropOutcome(doc, plan, payload, ok, ok2, viewport, point) ==
  CASE plan.branch = "dropToModel" ->
         dropToModel(doc, payload.content, payload.sameDoc, plan.parent, plan.index, ok)
    [] plan.branch = "noteOnNote" ->
         onDropNoteOnNote(doc, payload, plan.parent, plan.index, ok)
    [] plan.branch = "placeholder" ->
         addPlaceholder(doc, payload, plan.parent, plan.index)
    [] plan.branch = "merge" -> mergeSnapshotToCurDoc(doc, payload, ok)
    [] plan.branch = "mergeAndPlaceholder" ->
         mergeThenPlaceholder(doc, payload, plan.parent, plan.index, ok)
    [] plan.branch = "asGfxBlocks" ->
         dropAsGfxBlocks(doc, payload, ok, ok2, viewport, point)
    [] plan.branch = "wrapInNote" -> dropWrappedInNote(doc, payload, ok, viewport, point)
    [] OTHER -> Outcome(doc, 0, FALSE)

\* the dragged blocks already sit where the decision puts them: they are the
\* run of children of parent that starts at index or ends right before it
SitsAt(ch, units, parent, index) ==
  /\ parent \in DOMAIN ch
  /\ \E start \in 0..Len(ch[parent]) :
       /\ start + Len(units) <= Len(ch[parent])
       /\ \A i \in 1..Len(units) : ch[parent][start + i] = units[i]
       /\ index \in {start, start + Len(units)}

DropRecord(plan, in, out) ==
  LET result == getDropResult(children, flavour, in.dropBlock, in.payload, in.edge)
  IN
  [branch |-> plan.branch, mode |-> in.mode, placement |-> plan.placement,
   fromMode |-> in.payload.fromMode, sameDoc |-> in.payload.sameDoc,
   samePlace |-> /\ plan.placement # "none"
                 /\ SitsAt(children,
                           [i \in 1..Len(in.payload.content) |-> in.payload.content[i].id],
                           plan.parent, plan.index),
   onDragged |-> /\ in.payload.sameDoc
                 /\ \E i \in 1..Len(in.payload.content) :
                      LET unit == in.payload.content[i]
                      IN \/ in.dropBlock = unit.id
                         \/ \E k \in 1..Len(unit.children) :
                              in.dropBlock \in Subtree(children, unit.children[k]),
   std |-> in.std, outOfNote |-> in.outOfNote,
   elements |-> in.payload.elements, placeholder |-> out.placeholder,
   parent |-> plan.parent, index |-> plan.index,
   hasFrom |-> in.payload.hasFrom, target |-> flavour[in.dropBlock],
   dropBlock |-> in.dropBlock, edge |-> in.edge,
   content |-> [i \in 1..Len(in.payload.content) |-> in.payload.content[i].id],
   resolved |-> result # NoResult,
   result |-> result,
   flavours |-> [i \in 1..Len(in.payload.content) |-> in.payload.content[i].flavour],
   bounds |-> out.bounds, viewport |-> Origin, point |-> Origin,
   first |-> [id |-> in.payload.content[1].id, flavour |-> in.payload.content[1].flavour],
   mutatorCalls |-> out.calls, rejected |-> out.rejected, before |-> children]

\* lines 1351-1361: _onDrop(target.element, dragPayload, dropPayload, point),
\* with the pointer at a client point and the viewport's corner at a model
\* point (both matter on the canvas only),
\* and the store calls it makes settle
DropWith(in) ==
  /\ LET plan == onDrop(children, flavour, in.mode, in.dropBlock, in.payload, in.edge)
     IN \E ok \in IF plan.branch \in {"dropToModel", "noteOnNote", "asGfxBlocks",
                                       "wrapInNote", "mergeAndPlaceholder", "merge"}
                   THEN BOOLEAN ELSE {TRUE},
           ok2 \in IF plan.branch = "asGfxBlocks" THEN BOOLEAN ELSE {TRUE},
           at \in IF plan.branch \in {"asGfxBlocks", "wrapInNote"}
                  THEN DropPlaces
                  ELSE {[viewport |-> Origin, point |-> Origin]} :
          LET out == dropOutcome(Doc, plan, in.payload, ok, ok2, at.viewport, at.point)
          IN /\ SetDoc(out.doc)
             /\ lastDrop' = [DropRecord(plan, in, out) EXCEPT
                               !.viewport = at.viewport, !.point = at.point]
  /\ dropCount' = dropCount + 1

otherThanDrop == <<mergeVars, gestureVars, rewriteVars, extractVars, serviceVars>>

\* monitor.onDrop (lines 1337-1362) on a drop target of this editor that
\* accepts the payload
Drop ==
  /\ dropCount < MaxDrops
  /\ \E payload \in Payloads(children, flavour) \cup ForeignPayloads :
       \E mode \in Modes, dropBlock \in DOMAIN flavour \ HiddenBlocks(children) :
         /\ isDropTarget(children, flavour, mode, dropBlock)
         /\ canDrop(payload, dropBlock)
         /\ \E edge \in Edges :
              DropWith([mode |-> mode, dropBlock |-> dropBlock, payload |-> payload,
                        edge |-> edge, std |-> "this", outOfNote |-> FALSE])
  /\ UNCHANGED otherThanDrop

NextDrop == Drop

InitSpecDrop ==
  InitMergeIdle /\ InitDoc /\ InitDropIdle /\ InitGestureIdle /\ InitRewriteIdle
    /\ InitOthersIdle

SpecDrop == InitSpecDrop /\ [][NextDrop]_vars

\* a page with one note that holds a paragraph, the heading h1 with the two
\* paragraphs that follow it, and the heading h2; h1 is collapsed or not
InitHeading ==
  /\ children = [root |-> <<"surface", "n1">>, surface |-> <<>>,
                 n1 |-> <<"p0", "h1", "s1", "s2", "h2">>,
                 p0 |-> <<>>, h1 |-> <<>>, s1 |-> <<>>, s2 |-> <<>>, h2 |-> <<>>]
  /\ flavour = [root |-> "affine:page", surface |-> "affine:surface",
                n1 |-> "affine:note", p0 |-> "affine:paragraph",
                h1 |-> "affine:paragraph", s1 |-> "affine:paragraph",
                s2 |-> "affine:paragraph", h2 |-> "affine:paragraph"]
  /\ blockCount = 0
  /\ collapsed \in {{}, {"h1"}}

InitSpecHeading ==
  InitMergeIdle /\ InitHeading /\ InitDropIdle /\ InitGestureIdle /\ InitRewriteIdle
    /\ InitOthersIdle

SpecHeading == InitSpecHeading /\ [][NextDrop]_vars

(***************************************************************************)
(* Claims about a drop.                                                    *)
(***************************************************************************)

\* C4 (as stated): in a page-mode drop whose decision (before, after or in)
\* puts the dragged blocks of this document exactly where they already sit
\* (same parent, same index), the handler makes no store call and the block
\* tree is the one before the drop.
C4_SamePlaceIsNoOp ==
  (/\ lastDrop.mode = "page"
   /\ lastDrop.sameDoc
   /\ lastDrop.fromMode = "block"
   /\ lastDrop.placement \in {"before", "after", "in"}
   /\ lastDrop.samePlace)
    => /\ lastDrop.mutatorCalls = 0
       /\ children = lastDrop.before

\* C5 (as stated): when the store rejects an apply of a drop, the document is
\* the one before the drop: no block was added and none was deleted.
C5_RejectedDropLeavesDocument ==
  lastDrop.rejected
    => /\ children = lastDrop.before
       /\ DOMAIN flavour = DOMAIN lastDrop.before

\* the parent chain of id, the block itself first, as far as fuel goes
RECURSIVE ParentChain(_, _, _)
ParentChain(ch, id, fuel) ==
  IF fuel = 0 \/ id = NoBlock THEN <<>>
  ELSE <<id>> \o ParentChain(ch, getParent(ch, id), fuel - 1)

ReachesRoot(ch, id) ==
  LET chain == ParentChain(ch, id, Cardinality(DOMAIN ch) + 1)
  IN /\ chain # <<>>
     /\ Last(chain) = Root
     /\ \A i, j \in 1..Len(chain) : chain[i] = chain[j] => i = j

\* C9: after every drop, walking parents from any block reaches the root with
\* no id repeated and every block other than the root is the child of exactly
\* one block; and no drop of blocks of this document was accepted on a target
\* that is one of the dragged blocks or a descendant of one.
C9_TreeStaysRooted ==
  /\ \A b \in DOMAIN flavour : ReachesRoot(children, b)
  /\ \A b \in DOMAIN flavour \ {Root} :
       Cardinality({q \in DOMAIN children : SetHas(children[q], b)}) = 1
  /\ ~lastDrop.onDragged

\* a drop of blocks of this document was applied and moved them
C9_Witness ==
  /\ lastDrop.branch \in {"dropToModel", "noteOnNote"}
  /\ lastDrop.sameDoc
  /\ ~lastDrop.rejected
  /\ children # lastDrop.before

(***************************************************************************)
(* One drag gesture of this editor.                                        *)
(***************************************************************************)
OPACITY == "0.7"

\* lines 1103-1134 (traverse): the views a snapshot unit dims, in order: for
\* the surface its child blocks and then its elements, else the block itself
DimTargets(unit, elements) ==
  IF unit.flavour = "affine:surface"
  THEN unit.children \o [i \in 1..Len(elements) |-> elements[i].id]
  ELSE <<unit.id>>

RECURSIVE AllDimTargets(_, _)
AllDimTargets(content, elements) ==
  IF content = <<>> THEN <<>>
  ELSE DimTargets(Head(content), elements) \o AllDimTargets(Tail(content), elements)

\* lines 1097-1139: every view found is set to OPACITY and a callback that
\* holds the opacity it had is pushed
RECURSIVE dimViews(_, _, _)
dimViews(targets, op, callbacks) ==
  IF targets = <<>> THEN [opacity |-> op, callbacks |-> callbacks]
  ELSE LET v == Head(targets)
       IN IF v \in DOMAIN op
          THEN dimViews(Tail(targets), [op EXCEPT ![v] = OPACITY],
                        Append(callbacks, [view |-> v, originalOpacity |-> op[v]]))
          ELSE dimViews(Tail(targets), op, callbacks)

setOpacityOfDraggedBlocks(op, payload) ==
  dimViews(AllDimTargets(payload.content, payload.elements), op, <<>>)

\* lines 1110-1112 and 1123-1129: one reset callback; a block view whose
\* style had no opacity gets the property removed
resetCallback(op, cb) ==
  IF cb.view \notin DOMAIN op THEN op
  ELSE IF cb.view \in ElementIds
  THEN [op EXCEPT ![cb.view] = cb.originalOpacity]
  ELSE IF cb.originalOpacity # ""
  THEN [op EXCEPT ![cb.view] = cb.originalOpacity]
  ELSE [op EXCEPT ![cb.view] = ""]

\* (mutant) _cleanup leaves the reset callbacks alone
resetOpacity_Skipped(op, callbacks) == op

\* line 138: this.resetOpacityCallbacks.forEach(callback => callback())
RECURSIVE resetOpacity(_, _)
resetOpacity(op, callbacks) ==
  IF callbacks = <<>> THEN op
  ELSE resetOpacity(resetCallback(op, Head(callbacks)), Tail(callbacks))

\* (mutant) the monitor runs for every drag
canMonitor_Always(payload) == TRUE

\* lines 1321-1325: the monitor runs for a drag of blocks that carries a
\* snapshot
canMonitor(payload) == payload.hasSnapshot

\* (mutant) every drop target is taken for one of this editor
isDropOnCurrentEditor_Always(std) == TRUE

\* lines 1186-1188
isDropOnCurrentEditor(std) == std = "this"

\* getParentNoteBlock(dropBlock): the note the block view is in
closestNoteBlock(ch, fl, b) ==
  IF fl[b] = "affine:note" THEN b
  ELSE IF isUnderNoteBlock(ch, fl, b)
  THEN CHOOSE n \in DOMAIN fl : fl[n] = "affine:note" /\ b \in Subtree(ch, n)
  ELSE NoBlock

\* lines 270-313: _updateDropIndicator on the indicator element
updateDropIndicator(ch, fl, indicator, payload, h) ==
  IF ~indicator.present THEN indicator
  ELSE IF closestNoteBlock(ch, fl, h.block) = NoBlock \/ h.outOfNote
  THEN [indicator EXCEPT !.rect = NoResult]
  ELSE [indicator EXCEPT !.rect = getDropResult(ch, fl, h.block, payload, h.edge)]

\* the opacity of the views of the document: a view made for a new block has
\* no opacity of its own, the view of a deleted block is gone
ViewsOf(op, fl) ==
  [v \in DOMAIN fl \cup ElementIds |-> IF v \in DOMAIN op THEN op[v] ELSE ""]

\* the views that have an opacity of their own when the editor is opened
OwnOpacity == {{}, {"p1", "e1"}, {"n1", "l1"}}

\* the document of the editor the gesture starts in: a page with the surface
\* and one note that holds a paragraph and a list item with a nested list item
GestureBlocks == {Root, Surface, "n1", "p1", "l1", "l2"}

InitGesture ==
  /\ children = [b \in GestureBlocks |->
                   IF b = Root THEN <<Surface, "n1">> ELSE InitChildren[b]]
  /\ flavour = [b \in GestureBlocks |-> InitFlavour[b]]
  /\ blockCount = 0
  /\ collapsed = {}
  /\ gesturePc = "idle"
  /\ gesture = NoGesture
  /\ hover = NoHover
  /\ dropIndicator = NoIndicator
  /\ \E own \in OwnOpacity :
       opacity = [v \in GestureBlocks \cup ElementIds |-> InitOpacity(own)[v]]
  /\ resetOpacityCallbacks = <<>>

\* location.current of the DnD layer: no drop target, a drop target of another
\* editor on this document, or a drop target of this editor that accepts the
\* drag; the pointer can be outside the note of a sticky target
Hovers(mode, payload) ==
  {NoHover}
  \cup {[std |-> "other", block |-> b, edge |-> "bottom", outOfNote |-> FALSE] :
          b \in {x \in DOMAIN flavour : flavour[x] = "affine:note"}}
  \cup {h \in [std : {"this"}, block : DOMAIN flavour, edge : Edges,
               outOfNote : BOOLEAN] :
          /\ isDropTarget(children, flavour, mode, h.block)
          /\ canDrop(payload, h.block)
          /\ h.outOfNote =>
               /\ getIsSticky(children, flavour, mode, h.block)
               /\ closestNoteBlock(children, flavour, h.block) # NoBlock}

otherThanGesture == <<mergeVars, docVars, dropVars, rewriteVars, extractVars, serviceVars>>

\* (mutant) the DnD layer lets a drag start at any time
canStartDrag_Always(pc) == TRUE

\* std.dnd.draggable (line 1213): the DnD layer runs one drag at a time; a
\* pointer-down starts a gesture only when none is going on
canStartDrag(pc) == pc = "idle"

\* lines 1239-1251: setDragData: the snapshot of the dragged blocks is taken
\* and, when there is one, the dragged views are dimmed
DragStart ==
  /\ canStartDrag(gesturePc)
  /\ dropCount < MaxGestures
  /\ \E mode \in Modes,
        payload \in (IF dropCount < MaxDrops THEN Payloads(children, flavour) ELSE {})
                      \cup {NoPayload} :
       /\ payload.fromMode = "gfx" => mode = "edgeless"
       /\ LET dimmed == setOpacityOfDraggedBlocks(opacity, payload)
          IN /\ opacity' = IF payload.hasSnapshot THEN dimmed.opacity ELSE opacity
             /\ resetOpacityCallbacks' =
                  IF payload.hasSnapshot THEN dimmed.callbacks
                  ELSE resetOpacityCallbacks
             /\ gesture' =
                  [mode |-> mode, payload |-> payload,
                   dimmed |-> IF payload.hasSnapshot
                              THEN {dimmed.callbacks[i].view :
                                      i \in 1..Len(dimmed.callbacks)}
                              ELSE {},
                   before |-> opacity,
                   reset |-> {},
                   active |-> gesture.active + 1]
  /\ gesturePc' = "dragging"
  /\ hover' = NoHover
  /\ UNCHANGED dropIndicator
  /\ UNCHANGED otherThanGesture

\* the pointer moves: onDropTargetChange (lines 1326-1336) when the first
\* drop target changed, then onDrag (lines 1363-1387) with _onDragMove; the
\* monitor runs for a drag that carries a snapshot (canMonitor, 1321-1325)
DragMove ==
  /\ gesturePc = "dragging"
  /\ \E h \in Hovers(gesture.mode, gesture.payload) :
       /\ hover' = h
       /\ dropIndicator' =
            IF ~canMonitor(gesture.payload) THEN dropIndicator
            ELSE LET cleared == IF <<h.std, h.block>> # <<hover.std, hover.block>>
                                THEN NoIndicator
                                ELSE dropIndicator
                 IN IF ~isDropOnCurrentEditor(h.std) \/ h.block = NoBlock
                    THEN cleared
                    ELSE updateDropIndicator(children, flavour,
                                             [cleared EXCEPT !.present = TRUE],
                                             gesture.payload, h)
  /\ UNCHANGED <<gesturePc, gesture, opacity, resetOpacityCallbacks>>
  /\ UNCHANGED otherThanGesture

\* the drop that was not handed to _onDrop
NotDropped ==
  [NoDrop EXCEPT !.branch = "notDropped", !.mode = gesture.mode,
                 !.fromMode = gesture.payload.fromMode,
                 !.std = hover.std, !.outOfNote = hover.outOfNote,
                 !.before = children]

\* the pointer goes up: onDrop of the draggable (lines 1219-1221: _cleanup)
\* and, for a drag that carries a snapshot, onDrop of the monitor (lines
\* 1337-1362)
PointerUp ==
  /\ gesturePc = "dragging"
  /\ IF /\ canMonitor(gesture.payload)
        /\ isDropOnCurrentEditor(hover.std)
        /\ hover.block # NoBlock
     THEN DropWith([mode |-> gesture.mode, dropBlock |-> hover.block,
                    payload |-> gesture.payload, edge |-> hover.edge,
                    std |-> hover.std, outOfNote |-> hover.outOfNote])
     ELSE /\ lastDrop' = NotDropped
          /\ dropCount' = dropCount + 1
          /\ UNCHANGED docVars
  /\ dropIndicator' = NoIndicator
  /\ opacity' = ViewsOf(resetOpacity(opacity, resetOpacityCallbacks), flavour')
  /\ gesturePc' = "idle"
  /\ hover' = NoHover
  /\ gesture' = [gesture EXCEPT
                   !.active = @ - 1,
                   !.reset = {resetOpacityCallbacks[i].view :
                                i \in 1..Len(resetOpacityCallbacks)}]
  /\ UNCHANGED resetOpacityCallbacks
  /\ UNCHANGED <<mergeVars, rewriteVars, extractVars, serviceVars>>

\* the opacity the user gives a canvas element in the style panel
EditedOpacity == "0.3"

\* the canvas elements whose opacity the user edits
EditedElements == {"e1", "e2"}

\* between two gestures the user sets the opacity of a canvas element
\* (element.opacity, the property the callbacks of lines 1109-1113 read and
\* write); one edit is followed, and what the history holds about the views
\* of the finished gesture ends with it
SetElementOpacity ==
  /\ gesturePc = "idle"
  /\ \A e \in ElementIds : opacity[e] # EditedOpacity
  /\ \E e \in EditedElements : opacity' = [opacity EXCEPT ![e] = EditedOpacity]
  /\ gesture' = [gesture EXCEPT !.dimmed = {}, !.before = <<>>, !.reset = {}]
  /\ UNCHANGED <<gesturePc, hover, dropIndicator, resetOpacityCallbacks>>
  /\ UNCHANGED otherThanGesture

NextGesture == DragStart \/ DragMove \/ PointerUp \/ SetElementOpacity

InitSpecGesture ==
  InitMergeIdle /\ InitDropIdle /\ InitGesture /\ InitRewriteIdle
    /\ InitOthersIdle

SpecGesture == InitSpecGesture /\ [][NextGesture]_vars

(***************************************************************************)
(* Claims about a gesture.                                                 *)
(***************************************************************************)
AfterPointerUp == gesturePc = "idle" /\ dropCount > 0

\* C6: after the pointer-up of a gesture started from this editor, whatever
\* the drop did, the drop indicator is removed and every view (block view or
\* canvas element) that was dimmed at the start of the gesture has the opacity
\* it had before the gesture.
C6_CleanupRestoresOpacity ==
  AfterPointerUp =>
    /\ ~dropIndicator.present
    /\ \A v \in gesture.dimmed \cap DOMAIN opacity : opacity[v] = gesture.before[v]

\* C6 witness: a drop was applied to the document, and a view that had an
\* opacity of its own and one that had none were dimmed and are restored.
C6_Witness ==
  /\ AfterPointerUp
  /\ lastDrop.mutatorCalls > 0
  /\ children # lastDrop.before
  /\ \E v, w \in gesture.dimmed \cap DOMAIN opacity :
       /\ gesture.before[v] = "0.5" /\ opacity[v] = "0.5"
       /\ gesture.before[w] = "" /\ opacity[w] = ""

\* C7: a pointer-up with no drop target, or whose first drop target is of
\* another editor, makes no store call and leaves the document of this editor
\* as it was; the cleanup has run.
C7_OtherEditorDropIgnored ==
  (AfterPointerUp /\ lastDrop.std # "this") =>
    /\ lastDrop.mutatorCalls = 0
    /\ children = lastDrop.before
    /\ ~dropIndicator.present
    /\ \A v \in gesture.dimmed \cap DOMAIN opacity : opacity[v] = gesture.before[v]

\* C7 witness: a drag that carries a snapshot was released on a drop target
\* of another editor.
C7_Witness ==
  /\ AfterPointerUp
  /\ gesture.payload.hasSnapshot
  /\ gesture.dimmed # {}
  /\ lastDrop.std = "other"

\* C8 (as stated): while the pointer is outside the note of the hovered block
\* the indicator has no rectangle, and a pointer-up at that position makes no
\* store call and leaves the document as it was.
C8_OutOfNoteNoDrop ==
  /\ (/\ gesturePc = "dragging"
      /\ gesture.payload.hasSnapshot
      /\ hover.std = "this"
      /\ hover.outOfNote) => dropIndicator.rect = NoResult
  /\ (AfterPointerUp /\ lastDrop.std = "this" /\ lastDrop.outOfNote) =>
       /\ lastDrop.mutatorCalls = 0
       /\ children = lastDrop.before

(***************************************************************************)
(* A call of _rewriteSnapshotXYWH on a snapshot with bounds.               *)
(***************************************************************************)
Coords == (-1)..MaxCoord

\* where a member of the snapshot is: nowhere (it is not in the snapshot), or
\* the corner of its bound
Places == {NoXYWH} \cup {<<x, y>> : x \in Coords, y \in Coords}

MakeBlock(id, flav, xywh) ==
  [id |-> id, flavour |-> flav, xywh |-> xywh, style |-> "undefined",
   elements |-> <<>>, children |-> <<>>]

Sized(place, w, h) == <<place[1], place[2], w, h>>

\* the block a1 of the snapshots: an attachment without style, a linked-doc
\* card of style 'horizontal', or a bookmark
CardKinds ==
  {[flavour |-> "affine:attachment", style |-> "undefined"],
   [flavour |-> "affine:embed-linked-doc", style |-> "horizontal"],
   [flavour |-> "affine:bookmark", style |-> "undefined"]}

\* a snapshot of a canvas selection: the surface with the shape e1, the group
\* g1 (which has no xywh) and the block a1 as a child block, then the
\* note n1; without the note, a paragraph, which has no bound
RewriteSnapshot(pe, pa, pn, kind) ==
  LET elements ==
        (IF pe # NoXYWH THEN <<[id |-> "e1", xywh |-> Sized(pe, 2, 1)]>> ELSE <<>>)
          \o <<[id |-> "g1", xywh |-> NoXYWH]>>
      kids == IF pa # NoXYWH
              THEN <<[MakeBlock("a1", kind.flavour, Sized(pa, 5, 5))
                        EXCEPT !.style = kind.style]>>
              ELSE <<>>
      surface == [MakeBlock(Surface, "affine:surface", NoXYWH)
                    EXCEPT !.elements = elements, !.children = kids]
  IN (IF pe # NoXYWH \/ pa # NoXYWH THEN <<surface>> ELSE <<>>)
       \o (IF pn # NoXYWH
           THEN <<MakeBlock("n1", "affine:note", Sized(pn, 3, 2))>>
           ELSE <<MakeBlock("p1", "affine:paragraph", NoXYWH)>>)

InitRewrite ==
  /\ rewritePc = "ready"
  /\ \E pe \in Places, pa \in Places, pn \in Places, x \in Coords, y \in Coords,
        kind \in CardKinds :
       rewriteIn = [content |-> RewriteSnapshot(pe, pa, pn, kind),
                    point |-> [x |-> x, y |-> y]]
  /\ rewriteOut = [content |-> <<>>, ignoreOriginalPos |-> FALSE]

otherThanRewrite == <<mergeVars, docVars, dropVars, gestureVars, extractVars, serviceVars>>

\* _rewriteSnapshotXYWH(snapshot, point, ignoreOriginalPos) runs
RewriteSnapshotXYWH ==
  /\ rewritePc = "ready"
  /\ \E ignoreOriginalPos \in BOOLEAN :
       rewriteOut' =
         [content |-> rewriteSnapshotXYWH(rewriteIn.content, rewriteIn.point,
                                          ignoreOriginalPos),
          ignoreOriginalPos |-> ignoreOriginalPos]
  /\ rewritePc' = "done"
  /\ UNCHANGED rewriteIn
  /\ UNCHANGED otherThanRewrite

NextRewrite == RewriteSnapshotXYWH

InitSpecRewrite ==
  InitMergeIdle /\ InitDoc /\ InitDropIdle /\ InitGestureIdle /\ InitRewrite
    /\ InitOthersIdle

SpecRewrite == InitSpecRewrite /\ [][NextRewrite]_vars

(***************************************************************************)
(* Claims about the coordinate rewrite.                                    *)
(***************************************************************************)
\* the members of a snapshot that have a bound, as <<id, xywh>>
RECURSIVE MembersOf(_)
MembersOf(blocks) ==
  UNION {LET block == blocks[i]
         IN {<<block.elements[k].id, block.elements[k].xywh>> :
               k \in {j \in 1..Len(block.elements) : block.elements[j].xywh # NoXYWH}}
            \cup (IF block.xywh # NoXYWH THEN {<<block.id, block.xywh>>} ELSE {})
            \cup MembersOf(block.children) :
         i \in 1..Len(blocks)}

MinOf(S) == CHOOSE x \in S : \A y \in S : x <= y

\* C10: a relative rewrite of a snapshot whose members have the aggregate box
\* with corner (x, y) to the point P moves the bound of every member (canvas
\* elements, surface children, top-level blocks) from (mx, my) to
\* (mx - x + P.x, my - y + P.y): the offsets between members stay and the
\* corner of the aggregate box becomes P.
C10_RelativeRewriteMovesByDelta ==
  (rewritePc = "done" /\ ~rewriteOut.ignoreOriginalPos) =>
    LET before == MembersOf(rewriteIn.content)
        after == MembersOf(rewriteOut.content)
        P == rewriteIn.point
    IN before # {} =>
         LET x == MinOf({m[2][1] : m \in before})
             y == MinOf({m[2][2] : m \in before})
         IN /\ {m[1] : m \in after} = {m[1] : m \in before}
            /\ \A m \in before : \A o \in after :
                 o[1] = m[1] =>
                   /\ o[2][1] = m[2][1] - x + P.x
                   /\ o[2][2] = m[2][2] - y + P.y
            /\ \A m, n \in before : \A o, q \in after :
                 (o[1] = m[1] /\ q[1] = n[1]) =>
                   /\ o[2][1] - q[2][1] = m[2][1] - n[2][1]
                   /\ o[2][2] - q[2][2] = m[2][2] - n[2][2]
            /\ MinOf({o[2][1] : o \in after}) = P.x
            /\ MinOf({o[2][2] : o \in after}) = P.y

\* C10 witness: an element, a surface child and a top-level block at three
\* different places were moved, and not by zero.
C10_Witness ==
  /\ rewritePc = "done"
  /\ ~rewriteOut.ignoreOriginalPos
  /\ Cardinality({<<m[2][1], m[2][2]>> : m \in MembersOf(rewriteIn.content)}) = 3
  /\ MembersOf(rewriteOut.content) # MembersOf(rewriteIn.content)
  /\ \E m \in MembersOf(rewriteOut.content) :
       m[1] = "e1" /\ <<m[2][1], m[2][2]>> # <<rewriteIn.point.x, rewriteIn.point.y>>

\* C11: an absolute rewrite (ignoreOriginalPos true) puts the corner of the
\* bound of every top-level block of the snapshot that has a bound exactly on
\* the destination point.
C11_AbsoluteRewritePutsOnPoint ==
  (rewritePc = "done" /\ rewriteOut.ignoreOriginalPos) =>
    /\ Len(rewriteOut.content) = Len(rewriteIn.content)
    /\ \A i \in 1..Len(rewriteIn.content) :
         rewriteIn.content[i].xywh # NoXYWH =>
           /\ rewriteOut.content[i].id = rewriteIn.content[i].id
           /\ rewriteOut.content[i].xywh # NoXYWH
           /\ rewriteOut.content[i].xywh[1] = rewriteIn.point.x
           /\ rewriteOut.content[i].xywh[2] = rewriteIn.point.y

\* C11 witness: a top-level note that was somewhere else than the point, next
\* to a surface with an element, was put on the point.
C11_Witness ==
  /\ rewritePc = "done"
  /\ rewriteOut.ignoreOriginalPos
  /\ Len(rewriteIn.content) = 2
  /\ rewriteIn.content[2].xywh # NoXYWH
  /\ rewriteIn.content[2].xywh[1] # rewriteIn.point.x
  /\ rewriteOut.content[2].xywh[1] = rewriteIn.point.x
  /\ rewriteOut.content[2].xywh[2] = rewriteIn.point.y

SingleElementOnNote ==
  /\ lastDrop.mode = "page"
  /\ lastDrop.fromMode = "gfx"
  /\ lastDrop.sameDoc
  /\ Len(lastDrop.elements) = 1
  /\ lastDrop.parent \in DOMAIN lastDrop.before
  /\ flavour[lastDrop.parent] = "affine:note"

AddedBlocks == DOMAIN flavour \ DOMAIN lastDrop.before

CardFlavours ==
  {"affine:attachment", "affine:bookmark", "affine:embed-linked-doc",
   "affine:embed-synced-doc", "affine:embed-github", "affine:embed-youtube",
   "affine:embed-figma", "affine:embed-loom", "affine:embed-html",
   "affine:embed-iframe"}

\* C13 (as stated): a single canvas rectangle dropped on a page-mode note
\* gives exactly one applied unit, of an attachment/embed type, whose bound has
\* the canonical card width and height of that type.
C13_SingleElementGivesCard ==
  SingleElementOnNote =>
    /\ Cardinality(AddedBlocks) = 1
    /\ \A b \in AddedBlocks : flavour[b] \in CardFlavours
    /\ lastDrop.placeholder.hasXYWH

\* C13 (amended): a single canvas rectangle dropped on a page-mode note gives
\* exactly one new block, a child of that note, of flavour affine:surface-ref,
\* whose reference is the id of the rectangle and which gets no bound; nothing
\* else of the tree changes.
C13_SingleElementGivesSurfaceRef ==
  SingleElementOnNote =>
    /\ Cardinality(AddedBlocks) = 1
    /\ lastDrop.mutatorCalls = 1
    /\ \A b \in AddedBlocks :
         /\ flavour[b] = "affine:surface-ref"
         /\ getParent(children, b) = lastDrop.parent
         /\ RemoveUnits(children, {b}) = [x \in DOMAIN children \ {b} |-> lastDrop.before[x]]
                                           @@ (b :> <<>>)
    /\ lastDrop.placeholder =
         [flavour |-> "affine:surface-ref", reference |-> lastDrop.elements[1].id,
          hasXYWH |-> FALSE]

\* C13 witness: the rectangle e2 was dropped on the note n1 and the note has
\* one more child, a surface-ref to e2.
C13_Witness ==
  /\ SingleElementOnNote
  /\ lastDrop.parent = "n1"
  /\ lastDrop.elements[1].id = "e2"
  /\ lastDrop.placeholder.reference = "e2"
  /\ Len(children["n1"]) = Len(lastDrop.before["n1"]) + 1

(***************************************************************************)
(* Claims about a note dropped into a note.                                *)
(***************************************************************************)
\* the first unit of the dropped snapshot is a note and the note the drop
\* goes into has the same id
NoteOnSameNote ==
  /\ lastDrop.first.flavour = "affine:note"
  /\ lastDrop.parent \in DOMAIN lastDrop.before
  /\ lastDrop.parent = lastDrop.first.id

\* C15: a drop of a snapshot whose first unit is a note into a note with the
\* same id is a no-op: no store call is made and no block is added, moved or
\* deleted.
C15_NoteOnSameNoteIsNoOp ==
  NoteOnSameNote =>
    /\ lastDrop.mutatorCalls = 0
    /\ children = lastDrop.before
    /\ DOMAIN flavour = DOMAIN lastDrop.before

\* C15 witness: the handler compared the note with id n1 with the dragged note
\* of the same id and returned.
C15_Witness ==
  /\ NoteOnSameNote
  /\ lastDrop.branch = "sameNote"
  /\ lastDrop.parent = "n1"
  /\ children = lastDrop.before

(***************************************************************************)
(* Claims about a gesture without a snapshot.                              *)
(***************************************************************************)
\* C17: a gesture whose snapshot extraction yields no snapshot is a no-op
\* drag: no view is dimmed by it (no view has the dimmed opacity, and while it
\* lasts every opacity is what it was at the drag start) and no indicator is
\* shown; at pointer-up the monitor hands
\* nothing to the drop handler, no store call is made and the block tree is as
\* it was.
C17_NoSnapshotIsNoOp ==
  (gesturePc = "dragging" \/ AfterPointerUp) /\ ~gesture.payload.hasSnapshot =>
    /\ gesture.dimmed = {}
    /\ \A v \in DOMAIN opacity : opacity[v] # OPACITY
    /\ gesturePc = "dragging" =>
         \A v \in DOMAIN gesture.before : opacity[v] = gesture.before[v]
    /\ dropIndicator = NoIndicator
    /\ AfterPointerUp =>
         /\ lastDrop.branch = "notDropped"
         /\ lastDrop.mutatorCalls = 0
         /\ children = lastDrop.before
         /\ DOMAIN flavour = DOMAIN lastDrop.before

\* C17 witness: the pointer of a gesture without a snapshot went up over a
\* drop target of this editor.
C17_Witness ==
  /\ AfterPointerUp
  /\ ~gesture.payload.hasSnapshot
  /\ lastDrop.std = "this"
  /\ lastDrop.branch = "notDropped"

DropHandled == lastDrop.branch \notin {NoDrop.branch, "notDropped"}

\* C18 (as stated): when the snapshot is empty, the drag payload has no
\* origin, or the block under the pointer is a database block or the surface
\* block, the resolver gives no decision and the drop applies nothing: no
\* store call is made and the block tree is as it was.
C18_RefusedDropAppliesNothing ==
  /\ DropHandled => lastDrop.target # "affine:surface"
  /\ ( /\ DropHandled
       /\ \/ lastDrop.first.id = NoBlock
          \/ ~lastDrop.hasFrom
          \/ lastDrop.target \in {"affine:database", "affine:surface"} )
     => /\ ~lastDrop.resolved
        /\ lastDrop.mutatorCalls = 0
        /\ children = lastDrop.before
        /\ DOMAIN flavour = DOMAIN lastDrop.before

(***************************************************************************)
(* Claims about a collapsed heading.                                       *)
(***************************************************************************)
\* the collapsed heading h1, which hides s1 and s2, was dragged (its hidden
\* siblings may have been selected too) and dropped after another block, and
\* the store accepted the snapshot
CollapsedHeadingDroppedAfter ==
  /\ DropHandled
  /\ lastDrop.fromMode = "block"
  /\ lastDrop.sameDoc
  /\ "h1" \in collapsed
  /\ "h1" \in DOMAIN lastDrop.before
  /\ collapsedSiblings(lastDrop.before, "h1") = <<"s1", "s2">>
  /\ lastDrop.content # <<>>
  /\ lastDrop.content[1] = "h1"
  /\ ToSet(lastDrop.content) \subseteq {"h1", "s1", "s2"}
  /\ lastDrop.placement = "after"
  /\ ~lastDrop.rejected

\* how often a block is a child of some block
Occurrences(ch, b) ==
  Cardinality({<<p, k>> \in (DOMAIN ch) \X (1..Cardinality(DOMAIN ch)) :
                 k <= Len(ch[p]) /\ ch[p][k] = b})

\* C14: dragging a collapsed heading with two hidden sibling paragraphs and
\* dropping it after a third block gives a snapshot of exactly three units,
\* the heading followed by its two hidden siblings, each once (also when the
\* siblings were selected too), and after the drop the three are one run of
\* children directly after the target, each in the tree once.
C14_CollapsedHeadingMovesAsRun ==
  CollapsedHeadingDroppedAfter =>
    /\ lastDrop.content = <<"h1", "s1", "s2">>
    /\ \E p \in DOMAIN children :
         \E k \in 1..Len(children[p]) :
           /\ children[p][k] = lastDrop.dropBlock
           /\ k + 3 <= Len(children[p])
           /\ SubSeq(children[p], k + 1, k + 3) = <<"h1", "s1", "s2">>
    /\ \A b \in {"h1", "s1", "s2"} : Occurrences(children, b) = 1

\* C14 witness: the run h1, s1, s2 was moved from before h2 to after h2.
C14_Witness ==
  /\ CollapsedHeadingDroppedAfter
  /\ lastDrop.dropBlock = "h2"
  /\ lastDrop.before["n1"] = <<"p0", "h1", "s1", "s2", "h2">>
  /\ children["n1"] = <<"p0", "h2", "h1", "s1", "s2">>

(***************************************************************************)
(* Claims about the end of a merge.                                        *)
(***************************************************************************)
\* C21 (as stated): the dependency-ordered merge terminates for every finite
\* snapshot, also when a cycle of group membership is reachable from a root:
\* no call addInDependencyOrder(id) is started while a call for the same id
\* is still awaiting its children (such a call starts itself again without
\* end).
C21_NoCallReentered ==
  \A i, j \in 1..Len(callStack) :
    i # j => callStack[i].id # callStack[j].id

\* the applies of block members that the store rejected
FailedApplies == {k \in 1..Len(applyLog) : applyLog[k].result = "failed"}

\* the members addInDependencyOrder is called for: the root set and what the
\* child sets reach from it
CalledFor ==
  ReachFrom({r \in (DOMAIN containerTree \ {"root"}) \X MemberIds(mergeSnapshot) :
               SetHas(containerTree[r[1]], r[2])},
            ToSet(containerTree["root"]), Cardinality(MemberIds(mergeSnapshot)))

\* C22: when the apply of a block member fails (_dropToModel gives null) the
\* merge is neither rolled back nor aborted: what was recorded before stays
\* recorded and nothing created is taken back, the failed member has no remap
\* entry unless another apply of it succeeded, a container applied after the
\* failure has the reference to the failed member removed, and the walk goes
\* on: when the merge returns, every member the walk is called for has been
\* applied.
C22_FailedApplyIsSkipped ==
  \A k \in FailedApplies :
    LET e == applyLog[k]
    IN /\ DOMAIN e.remapAt \subseteq DOMAIN idRemap
       /\ liveCount >= Cardinality({j \in 1..k : IsLive(applyLog[j].result)})
       /\ (\A j \in 1..Len(applyLog) :
             applyLog[j].id = e.id => ~IsLive(applyLog[j].result))
          => e.id \notin DOMAIN idRemap
       /\ \A j \in (k + 1)..Len(applyLog) :
            (applyLog[j].group /\ e.id \notin DOMAIN applyLog[j].remapAt)
              => /\ e.id \notin ToSet(applyLog[j].children)
                 /\ Len(applyLog[j].children) <=
                      Cardinality(ToSet(applyLog[j].before) \cap DOMAIN applyLog[j].remapAt)
       /\ mergePc = "done" =>
            \A id \in CalledFor \cap MemberIds(mergeSnapshot) :
              \E j \in 1..Len(applyLog) : applyLog[j].id = id

\* C22 witness: the merge returned; the first member applied stayed, the apply
\* of a block then failed, and the frame that lists the failed block was
\* applied after it without that reference.
C22_Witness ==
  /\ mergePc = "done"
  /\ \E k \in FailedApplies :
       /\ \E i \in 1..(k - 1) :
            /\ IsLive(applyLog[i].result)
            /\ applyLog[i].id \in DOMAIN idRemap
       /\ applyLog[k].id \notin DOMAIN idRemap
       /\ \E j \in (k + 1)..Len(applyLog) :
            /\ applyLog[j].group
            /\ applyLog[k].id \in ToSet(applyLog[j].before)
            /\ applyLog[k].id \notin ToSet(applyLog[j].children)
            /\ IsLive(applyLog[j].result)

(***************************************************************************)
(* Claims about what a drop does to the block tree.                        *)
(***************************************************************************)
\* a snapshot whose first unit is a note was dropped at a place whose parent
\* is another note, and the store accepted what it was asked to apply
NoteDroppedIntoOtherNote ==
  /\ DropHandled
  /\ lastDrop.first.flavour = "affine:note"
  /\ lastDrop.parent \in DOMAIN lastDrop.before
  /\ flavour[lastDrop.parent] = "affine:note"
  /\ lastDrop.parent # lastDrop.first.id
  /\ ~lastDrop.rejected

\* C23: dropping a snapshot whose first unit is a note into a different note
\* merges instead of nesting: the children of the dragged note are inserted
\* under the target note at the computed index, the dragged note is deleted,
\* and no note is a child of a note.
C23_NoteMergedIntoNote ==
  NoteDroppedIntoOtherNote =>
    /\ lastDrop.first.id \notin DOMAIN flavour
    /\ lastDrop.sameDoc =>
         children[lastDrop.parent] =
           InsertAt(lastDrop.before[lastDrop.parent], lastDrop.index,
                    lastDrop.before[lastDrop.first.id])
    /\ \A p \in DOMAIN children :
         flavour[p] = "affine:note" =>
           \A k \in 1..Len(children[p]) : flavour[children[p][k]] # "affine:note"

\* C23 witness: the note n1 was dropped below the attachment of the note n2;
\* n2 holds its own children followed by those of n1, and n1 is gone.
C23_Witness ==
  /\ NoteDroppedIntoOtherNote
  /\ lastDrop.first.id = "n1"
  /\ lastDrop.parent = "n2"
  /\ children["n2"] = <<"d1", "a1", "p1", "l1">>
  /\ "n1" \notin DOMAIN children

\* C24 (as stated): when a snapshot whose units all validate as list children
\* is dropped on the trailing (right) edge of a list item, the placement is
\* 'in' and, the store accepting, the dropped units are the last children of
\* the hovered item.
C24_ListDropAppendsAtEnd ==
  ( /\ DropHandled
    /\ lastDrop.target = "affine:list"
    /\ lastDrop.edge = "right"
    /\ lastDrop.fromMode = "block"
    /\ lastDrop.sameDoc
    /\ \A i \in 1..Len(lastDrop.content) :
         safeValidate(flavour[lastDrop.content[i]], "affine:list")
    /\ ~lastDrop.rejected )
  => /\ lastDrop.placement = "in"
     /\ lastDrop.parent = lastDrop.dropBlock
     /\ LET kids == children[lastDrop.dropBlock]
            n == Len(lastDrop.content)
        IN /\ n <= Len(kids)
           /\ SubSeq(kids, Len(kids) - n + 1, Len(kids)) = lastDrop.content

\* the resolver gave a decision for a drop outside the right edge of a list item
ResolvedOutsideListEdge ==
  /\ DropHandled
  /\ lastDrop.resolved
  /\ ~(lastDrop.edge = "right" /\ lastDrop.target = "affine:list")

\* C25: outside the list right-edge case the resolver's placement is 'in'
\* exactly when the hovered block is a note and the first unit of the snapshot
\* validates as a child of a note; otherwise it is 'before' on the edge 'top'
\* and 'after' on any other edge; in every case the target of the decision is
\* the hovered block.
C25_PlacementOutsideListEdge ==
  ResolvedOutsideListEdge
  => /\ lastDrop.result.model = lastDrop.dropBlock
     /\ (lastDrop.result.placement = "in")
          <=> /\ lastDrop.target = "affine:note"
              /\ safeValidate(lastDrop.first.flavour, "affine:note")
     /\ lastDrop.result.placement # "in"
          => lastDrop.result.placement =
               IF lastDrop.edge = "top" THEN "before" ELSE "after"

\* a note dragged from the canvas is dropped on the bottom edge of another
\* note: the hovered block is a note, the first unit is not a note child, and
\* the decision is 'after' the hovered note
C25_Witness ==
  /\ ResolvedOutsideListEdge
  /\ lastDrop.target = "affine:note"
  /\ lastDrop.first.flavour = "affine:note"
  /\ lastDrop.edge = "bottom"
  /\ lastDrop.result = [placement |-> "after", model |-> lastDrop.dropBlock]

\* a selection dragged from the canvas is dropped on a block that _onPageDrop
\* handles, and the resolver gave a decision
CanvasOriginPageDrop ==
  /\ DropHandled
  /\ lastDrop.resolved
  /\ lastDrop.fromMode = "gfx"
  /\ ~(lastDrop.mode = "edgeless" /\ lastDrop.target = "affine:page")

\* ... the computed parent is a note and the units neither all validate as
\* children of a note nor are all notes
CanvasSelectionOnNote ==
  /\ CanvasOriginPageDrop
  /\ lastDrop.parent \in DOMAIN lastDrop.before
  /\ flavour[lastDrop.parent] = "affine:note"
  /\ \E i \in 1..Len(lastDrop.flavours) :
       ~safeValidate(lastDrop.flavours[i], "affine:note")
  /\ \E i \in 1..Len(lastDrop.flavours) : lastDrop.flavours[i] # "affine:note"

\* the members of the dragged selection whose area is positive and the largest
LargestMembers ==
  LET elems == lastDrop.elements
      area(i) == elems[i].w * elems[i].h
  IN {i \in 1..Len(elems) :
        area(i) > 0 /\ \A j \in 1..Len(elems) : area(j) <= area(i)}

\* the id a member of the dragged selection has in this document
LiveIdOf(id) == IF lastDrop.sameDoc THEN id ELSE NewElementId(id)

CanvasSelectionOnOwnRoot ==
  /\ DropHandled
  /\ lastDrop.mode = "edgeless"
  /\ lastDrop.target = "affine:page"
  /\ lastDrop.fromMode = "gfx"
  /\ lastDrop.sameDoc

\* C27: in canvas mode a drop on the root block of a selection dragged from the
\* canvas of the same document is rejected outright: no mutator is called, and
\* no block is created, moved or deleted.
C27_OwnCanvasDropRejected ==
  CanvasSelectionOnOwnRoot
  => /\ lastDrop.mutatorCalls = 0
     /\ children = lastDrop.before
     /\ DOMAIN flavour = DOMAIN lastDrop.before
     /\ lastDrop.placeholder = NoPlaceholder

\* C27 witness: the four canvas elements of this document were dropped on the
\* root block in canvas mode.
C27_Witness ==
  /\ CanvasSelectionOnOwnRoot
  /\ Len(lastDrop.elements) = 4
  /\ lastDrop.dropBlock = Root

(***************************************************************************)
(* Claims about a drop of page content on the canvas.                      *)
(***************************************************************************)
\* in canvas mode a snapshot that was not dragged from a canvas is dropped on
\* the root block
PageOriginOnCanvasRoot ==
  /\ DropHandled
  /\ lastDrop.mode = "edgeless"
  /\ lastDrop.target = "affine:page"
  /\ lastDrop.fromMode # "gfx"
  /\ lastDrop.content # <<>>

\* the units that validate neither as a child of the surface nor of the root
UnitsToWrap ==
  {i \in 1..Len(lastDrop.flavours) :
     /\ ~safeValidate(lastDrop.flavours[i], "affine:surface")
     /\ ~safeValidate(lastDrop.flavours[i], "affine:page")}

\* the model coordinate of the point of the drop
DropPointInModel == toModelCoordFromClientCoord(lastDrop.viewport, lastDrop.point)

\* the notes the drop added under the root
WrappingNotes ==
  {b \in AddedBlocks : flavour[b] = "affine:note" /\ getParent(children, b) = Root}

\* C28 (as stated): page content dropped on the canvas root with a unit that
\* validates neither as a surface child nor as a root child gives one new note
\* of the default note width and height whose top-left corner is the model
\* coordinate of the drop point, and the whole snapshot is applied inside it.
C28_WrappedInNoteAtDropPoint ==
  (PageOriginOnCanvasRoot /\ UnitsToWrap # {} /\ ~lastDrop.rejected)
  => /\ Cardinality(WrappingNotes) = 1
     /\ \A b \in WrappingNotes :
          /\ \E k \in 1..Len(lastDrop.bounds) :
               /\ lastDrop.bounds[k].id = b
               /\ lastDrop.bounds[k].xywh =
                    <<DropPointInModel.x, DropPointInModel.y,
                      "DEFAULT_NOTE_WIDTH", "DEFAULT_NOTE_HEIGHT">>
          /\ [i \in 1..Len(children[b]) |-> flavour[children[b][i]]] = lastDrop.flavours
          /\ lastDrop.sameDoc => children[b] = lastDrop.content

\* the flavours of the units that validate as children of the surface, then of
\* those that validate as children of the root only
FlavoursByGroup ==
  SelectSeq(lastDrop.flavours, LAMBDA f : safeValidate(f, "affine:surface"))
    \o SelectSeq(lastDrop.flavours, LAMBDA f : ~safeValidate(f, "affine:surface"))

\* C29: page content dropped on the canvas root, every unit of which validates
\* as a child of the surface or of the root, and which the store accepts: each
\* unit is applied once, under the surface when it validates as a surface
\* child and under the root otherwise, its bound put on the model coordinate
\* of the drop point; no other block (no wrapping note) is created.
C29_UnitsAppliedUnderSurfaceOrRoot ==
  (PageOriginOnCanvasRoot /\ UnitsToWrap = {} /\ ~lastDrop.rejected)
  => LET applied == lastDrop.bounds
         ids == {applied[k].id : k \in 1..Len(applied)}
     IN /\ [k \in 1..Len(applied) |-> flavour[applied[k].id]] = FlavoursByGroup
        /\ Cardinality(ids) = Len(lastDrop.content)
        /\ lastDrop.sameDoc => ids = ToSet(lastDrop.content)
        /\ AddedBlocks = ids \ DOMAIN lastDrop.before
        /\ \A k \in 1..Len(applied) :
             LET b == applied[k].id
                 parent == IF safeValidate(flavour[b], "affine:surface")
                           THEN Surface ELSE Root
             IN /\ Occurrences(children, b) = 1
                /\ getParent(children, b) = parent
                /\ applied[k].xywh # NoXYWH
                /\ applied[k].xywh[1] = DropPointInModel.x
                /\ applied[k].xywh[2] = DropPointInModel.y

\* C29 witness: a note and an attachment of another document were dropped at
\* the client point (1, 0) with the corner of the viewport at (0, 1): the
\* surface has a new attachment and the root a new note, both at (1, 1).
C29_Witness ==
  /\ PageOriginOnCanvasRoot
  /\ ~lastDrop.rejected
  /\ lastDrop.flavours = <<"affine:note", "affine:attachment">>
  /\ lastDrop.viewport = [x |-> 0, y |-> 1]
  /\ lastDrop.point = [x |-> 1, y |-> 0]
  /\ children[Surface] = <<"b1">>
  /\ Last(children[Root]) = "b2"
  /\ [k \in 1..2 |-> SubSeq(lastDrop.bounds[k].xywh, 1, 2)] = <<(<<1, 1>>), (<<1, 1>>)>>

(***************************************************************************)
(* Claims about the card size set by the coordinate rewrite.               *)
(***************************************************************************)
\* the blocks of a snapshot that are no surface, the children of a surface
\* included, in visiting order
RECURSIVE FlatBlocks(_)
FlatBlocks(blocks) ==
  IF blocks = <<>> THEN <<>>
  ELSE (IF Head(blocks).flavour = "affine:surface"
        THEN FlatBlocks(Head(blocks).children)
        ELSE <<Head(blocks)>>) \o FlatBlocks(Tail(blocks))

\* the canvas elements of the surfaces of a snapshot
RECURSIVE FlatElements(_)
FlatElements(blocks) ==
  IF blocks = <<>> THEN <<>>
  ELSE (IF Head(blocks).flavour = "affine:surface"
        THEN Head(blocks).elements
        ELSE <<>>) \o FlatElements(Tail(blocks))

SizeOf(xywh) == IF xywh = NoXYWH THEN NoXYWH ELSE <<xywh[3], xywh[4]>>

\* C30: a rewrite, relative or absolute, gives every attachment or embed block
\* of the snapshot that has a bound the card width and height of its style,
\* the style being 'vertical' (and written to the block) when it has none;
\* every other block and every canvas element keeps its width and height.
C30_CardsGetCardSize ==
  rewritePc = "done" =>
    LET before == FlatBlocks(rewriteIn.content)
        after == FlatBlocks(rewriteOut.content)
        elemsBefore == FlatElements(rewriteIn.content)
        elemsAfter == FlatElements(rewriteOut.content)
    IN /\ Len(after) = Len(before)
       /\ Len(elemsAfter) = Len(elemsBefore)
       /\ \A i \in 1..Len(elemsBefore) :
            SizeOf(elemsAfter[i].xywh) = SizeOf(elemsBefore[i].xywh)
       /\ \A i \in 1..Len(before) :
            IF /\ before[i].xywh # NoXYWH
               /\ \/ before[i].flavour = "affine:attachment"
                  \/ before[i].flavour \in EmbedFlavours
            THEN LET style == IF before[i].style = "undefined"
                              THEN "vertical" ELSE before[i].style
                 IN /\ after[i].style = style
                    /\ SizeOf(after[i].xywh) =
                         <<EMBED_CARD_WIDTH[style], EMBED_CARD_HEIGHT[style]>>
            ELSE /\ after[i].style = before[i].style
                 /\ SizeOf(after[i].xywh) = SizeOf(before[i].xywh)

\* C30 witness: a linked-doc card of style 'horizontal' that was 5 x 5 is
\* 752 x 116 after the rewrite, next to a note and a shape that kept their
\* sizes.
C30_Witness ==
  /\ rewritePc = "done"
  /\ \E i \in 1..Len(FlatBlocks(rewriteIn.content)) :
       /\ FlatBlocks(rewriteIn.content)[i].flavour = "affine:embed-linked-doc"
       /\ SizeOf(FlatBlocks(rewriteIn.content)[i].xywh) = <<5, 5>>
       /\ SizeOf(FlatBlocks(rewriteOut.content)[i].xywh) = <<752, 116>>
  /\ \E i \in 1..Len(FlatBlocks(rewriteOut.content)) :
       /\ FlatBlocks(rewriteOut.content)[i].flavour = "affine:note"
       /\ SizeOf(FlatBlocks(rewriteOut.content)[i].xywh) = <<3, 2>>
  /\ \E i \in 1..Len(FlatElements(rewriteOut.content)) :
       SizeOf(FlatElements(rewriteOut.content)[i].xywh) = <<2, 1>>

(***************************************************************************)
(* Claims about the reset callbacks a gesture leaves behind.               *)
(***************************************************************************)
\* the views the last gesture did not dim and that are still there
ViewsNotDimmed == (DOMAIN gesture.before \cap DOMAIN opacity) \ gesture.dimmed

\* C31 (as stated): after the cleanup of a gesture the callbacks it ran are
\* those of the views this gesture dimmed, never the callbacks of an earlier
\* gesture, and no view it did not dim has another opacity than at the start
\* of the gesture; this holds also for a gesture that captured no snapshot.
C31_CleanupRunsOwnCallbacksOnly ==
  AfterPointerUp =>
    /\ gesture.reset \subseteq gesture.dimmed
    /\ \A v \in ViewsNotDimmed : opacity[v] = gesture.before[v]

(***************************************************************************)
(* Snapshot Extractor: _getDraggedSnapshot.                                *)
(***************************************************************************)
\* the models gfx.getElementById answers for: the frame f1 and the edgeless
\* text t1 are blocks of the surface, the note n1 is a block of the root, the
\* group g1 and the shapes s1, s2 are canvas elements
\* (GfxPrimitiveElementModel) of the surface
CanvasModels ==
  [f1 |-> [primitive |-> FALSE, parent |-> Surface, group |-> TRUE],
   g1 |-> [primitive |-> TRUE, parent |-> NoBlock, group |-> TRUE],
   s1 |-> [primitive |-> TRUE, parent |-> NoBlock, group |-> FALSE],
   s2 |-> [primitive |-> TRUE, parent |-> NoBlock, group |-> FALSE],
   t1 |-> [primitive |-> FALSE, parent |-> Surface, group |-> FALSE],
   n1 |-> [primitive |-> FALSE, parent |-> Root, group |-> FALSE]]

\* elem.childElements are listed in this order
CanvasOrder == <<"f1", "g1", "s1", "s2", "t1", "n1">>

NoContainer == "none"

\* who contains whom on the canvas: a model is a member of one container at
\* most; the group is in the frame or in nothing
Memberships ==
  {m \in [DOMAIN CanvasModels -> {"f1", "g1", NoContainer}] :
     /\ m["f1"] = NoContainer
     /\ m["g1"] # "g1"
     /\ m["n1"] # "g1"}

\* elem.childElements
childElements(memberOf, id) == SelectSeq(CanvasOrder, LAMBDA c : memberOf[c] = id)

\* lines 325-338: getElementsInContainer(elem, selectedElements), with the
\* array it pushes to
RECURSIVE getElementsInContainer(_, _, _, _)
getElementsInContainer(memberOf, todo, selectedElements, fuel) ==
  IF todo = <<>> \/ fuel = 0 THEN selectedElements
  ELSE LET elem == Head(todo)
           below == IF CanvasModels[elem].group
                    THEN getElementsInContainer(memberOf, childElements(memberOf, elem),
                                                Append(selectedElements, elem), fuel - 1)
                    ELSE Append(selectedElements, elem)
       IN getElementsInContainer(memberOf, Tail(todo), below, fuel)

\* lines 349-361: the model is shown by the surface: a canvas element, or a
\* block whose parent is the surface
isOfSurface(model) == model.primitive \/ model.parent = Surface

\* (mutant) the surface is pushed for every model of the surface
pushSurface_EveryTime(surfaceAdded, blocks) == Append(blocks, Surface)

\* lines 350-352 and 357-359: if (surfaceAdded) return; blocks.push(surface)
pushSurface(surfaceAdded, blocks) ==
  IF surfaceAdded THEN blocks ELSE Append(blocks, Surface)

\* lines 339-367: toSnapshotRequiredBlocks(models)
RECURSIVE toSnapshotRequiredBlocks(_, _, _)
toSnapshotRequiredBlocks(models, surfaceAdded, blocks) ==
  IF models = <<>> THEN blocks
  ELSE LET id == Head(models)
       IN IF id \notin DOMAIN CanvasModels
          THEN toSnapshotRequiredBlocks(Tail(models), surfaceAdded, blocks)
          ELSE IF isOfSurface(CanvasModels[id])
          THEN toSnapshotRequiredBlocks(Tail(models), TRUE,
                                        pushSurface(surfaceAdded, blocks))
          ELSE toSnapshotRequiredBlocks(Tail(models), surfaceAdded,
                                        Append(blocks, id))

\* containBlock(selections.map(s => s.blockId), anchorBlockId)
containBlock(blockIds, targetId) == targetId \in blockIds

\* getBlockComponentsExcludeSubtrees(blocks): a block nested in another block
\* of the list is left out
getBlockComponentsExcludeSubtrees(ch, blocks) ==
  SelectSeq(blocks,
            LAMBDA b : \A a \in ToSet(blocks) : a = b \/ b \notin Subtree(ch, a))

\* lines 396-412: a text selection becomes the block selection of the blocks
\* in the native range
rangeToBlockSelection(sel) ==
  IF sel.blocks # {} /\ sel.type = "text"
  THEN [type |-> "block", blocks |-> sel.blocks]
  ELSE sel

\* lines 414-425: when nothing is selected, or the selection does not hold
\* the hovered block, the hovered block becomes the selection
selectHovered(sel, anchor) ==
  IF sel.blocks = {} \/ ~containBlock(sel.blocks, anchor)
  THEN [type |-> "block", blocks |-> {anchor}]
  ELSE sel

\* what the editor has selected when a drag starts from a block handle:
\* nothing, up to MaxDragged blocks, or the text of one block
Selections ==
  {[type |-> "block", blocks |-> b] :
     b \in {x \in SUBSET ContentBlocks(InitFlavour) : Cardinality(x) <= MaxDragged}}
  \cup {[type |-> "text", blocks |-> {b}] : b \in ContentBlocks(InitFlavour)}

NoSelection == [type |-> "block", blocks |-> {}]

\* a drag is about to start: from the handle of a block under the pointer,
\* or from the handle of the canvas selection, whose element can be gone
InitExtract ==
  /\ extractPc = "ready"
  /\ extractOut = NoExtract
  /\ \/ /\ selection \in Selections
        /\ \E anchor \in ContentBlocks(InitFlavour) :
             extractIn = [handle |-> "block", anchor |-> anchor,
                          memberOf |-> <<>>, selection |-> selection]
     \/ /\ selection = NoSelection
        /\ \E anchor \in DOMAIN CanvasModels \cup {"gone"}, m \in Memberships :
             extractIn = [handle |-> "gfx", anchor |-> anchor,
                          memberOf |-> m, selection |-> selection]

otherThanExtract ==
  <<mergeVars, docVars, dropVars, gestureVars, rewriteVars, serviceVars>>

\* lines 393-459: _getSnapshotFromHoveredBlocks
GetSnapshotFromHoveredBlocks ==
  /\ extractPc = "ready"
  /\ extractIn.handle = "block"
  /\ LET selections == selectHovered(rangeToBlockSelection(selection),
                                     extractIn.anchor)
         blocks == flatMapSelected(children,
                      SelectSeq(DocOrder(children),
                                LAMBDA b : b \in selections.blocks), {})
     IN /\ selection' = selections
        /\ extractOut' =
             [hasSnapshot |-> TRUE, selectedElements |-> <<>>,
              blocks |-> getBlockComponentsExcludeSubtrees(children, blocks)]
  /\ extractPc' = "done"
  /\ UNCHANGED extractIn
  /\ UNCHANGED otherThanExtract

\* lines 315-379: _getSnapshotFromSelectedGfxElms
GetSnapshotFromSelectedGfxElms ==
  /\ extractPc = "ready"
  /\ extractIn.handle = "gfx"
  /\ extractOut' =
       IF extractIn.anchor \notin DOMAIN CanvasModels THEN NoExtract
       ELSE LET selectedElements ==
                  getElementsInContainer(extractIn.memberOf, <<extractIn.anchor>>,
                                         <<>>, Len(CanvasOrder) + 1)
            IN [hasSnapshot |-> TRUE, selectedElements |-> selectedElements,
                blocks |-> toSnapshotRequiredBlocks(selectedElements, FALSE, <<>>)]
  /\ extractPc' = "done"
  /\ UNCHANGED <<extractIn, selection>>
  /\ UNCHANGED otherThanExtract

NextExtract == GetSnapshotFromHoveredBlocks \/ GetSnapshotFromSelectedGfxElms

InitSpecExtract ==
  InitMergeIdle /\ InitDoc /\ InitDropIdle /\ InitGestureIdle /\ InitRewriteIdle
    /\ InitExtract /\ InitServicesIdle

SpecExtract == InitSpecExtract /\ [][NextExtract]_vars

(***************************************************************************)
(* Claims about the snapshot extraction.                                   *)
(***************************************************************************)
\* C32 (as stated): the extraction of the snapshot at the start of a gesture
\* is a pure read: when it has returned, the block tree is the one of before
\* and the block selection is the one the editor had when it was called.
C32_ExtractionIsPureRead ==
  extractPc = "done" =>
    /\ children = InitChildren
    /\ flavour = InitFlavour
    /\ selection = extractIn.selection

\* the models reachable from id through the membership in containers
RECURSIVE ReachableModels(_, _, _)
ReachableModels(memberOf, found, fuel) ==
  LET more == found \cup {c \in DOMAIN CanvasModels :
                             memberOf[c] \in found /\ CanvasModels[memberOf[c]].group}
  IN IF fuel = 0 \/ more = found THEN found
     ELSE ReachableModels(memberOf, more, fuel - 1)

CountOf(seq, x) == Cardinality({i \in 1..Len(seq) : seq[i] = x})

\* C33: in the extraction from the canvas selection the blocks handed to the
\* snapshot hold the surface at most once, whatever the number of canvas
\* elements and surface blocks reachable from the selected element through
\* container membership, and every reachable model is collected.
C33_SurfaceOnceAllCollected ==
  (extractPc = "done" /\ extractIn.handle = "gfx" /\ extractOut.hasSnapshot) =>
    /\ CountOf(extractOut.blocks, Surface) <= 1
    /\ ToSet(extractOut.selectedElements) =
         ReachableModels(extractIn.memberOf, {extractIn.anchor},
                         Cardinality(DOMAIN CanvasModels))

\* C33 witness: the selected frame holds the group with both shapes, the
\* edgeless text and the note; the blocks are the surface, once, and the note.
C33_Witness ==
  /\ extractPc = "done"
  /\ extractIn.handle = "gfx"
  /\ extractIn.anchor = "f1"
  /\ Len(extractOut.selectedElements) = 6
  /\ extractOut.blocks = <<Surface, "n1">>

(***************************************************************************)
(* Runtime: the runtime config store (get, set, loadDb, loadCache,         *)
(* setCache). A value is <<b>> for the boolean b and <<>> for undefined.   *)
(***************************************************************************)
RuntimeConfigKeys == {"enablePayment", "defaultPasswordLogin"}

\* part_001 lines 14-18 and 20-24
DefaultRuntimeConfigs ==
  [enablePayment |-> TRUE, enableQuota |-> TRUE, defaultPasswordLogin |-> FALSE]

SelfHostDefaultRuntimeConfigs ==
  [enablePayment |-> FALSE, enableQuota |-> FALSE, defaultPasswordLogin |-> TRUE]

Undefined == <<>>

JSONstringify(v) == IF v THEN "true" ELSE "false"

JSONparse(text) == text = "true"

\* the keys the cache is asked for: loadCache reads `runtime:${k}` (line
\* 135), setCache writes k (line 142)
CacheKeys == RuntimeConfigKeys \cup {"runtime:" \o k : k \in RuntimeConfigKeys}

\* if (cached) / if (!dbValue): the value is defined and true
truthy(value) == value # Undefined /\ value[1]

\* lines 132-136: loadCache(k)
loadCache(c, k) == c["runtime:" \o k]

\* lines 138-143: setCache(k, v)
setCache(c, k, v) == [c EXCEPT ![k] = <<v>>]

\* lines 116-130: loadDb(k): the stored row parsed, else the default
loadDb(table, defaults, k) ==
  IF table[k] # <<>> THEN JSONparse(table[k][1]) ELSE defaults[k]

\* line 74: if (!dbValue) throw
dbValueFound(dbValue) == dbValue

\* lines 63-81: get(k): what it returns or that it throws, and the cache
\* after it
get(table, c, defaults, k) ==
  LET cached == loadCache(c, k)
      dbValue == loadDb(table, defaults, k)
  IN IF truthy(cached)
     THEN [outcome |-> "returned", result |-> cached, cache |-> c]
     ELSE IF ~dbValueFound(dbValue)
     THEN [outcome |-> "thrown", result |-> Undefined, cache |-> c]
     ELSE [outcome |-> "returned", result |-> <<dbValue>>,
           cache |-> setCache(c, k, dbValue)]

\* the server starts with the defaults of its flavor; the table holds the
\* settings stored before, the cache is empty
InitRuntime ==
  /\ defaultConfigs \in {DefaultRuntimeConfigs, SelfHostDefaultRuntimeConfigs}
  /\ applicationSetting \in [RuntimeConfigKeys -> {<<>>, <<"true">>, <<"false">>}]
  /\ cache = [key \in CacheKeys |-> Undefined]
  /\ runtimeCall = [last |-> NoRuntimeCall, previous |-> NoRuntimeCall]

otherThanRuntime ==
  <<mergeVars, docVars, dropVars, gestureVars, rewriteVars, extractVars,
    copilotVars, portalVars, tagVars>>

\* lines 63-81: a call of get(k) from start to end
RuntimeGet ==
  /\ \E k \in RuntimeConfigKeys :
       LET r == get(applicationSetting, cache, defaultConfigs, k)
       IN /\ cache' = r.cache
          /\ runtimeCall' =
               [last |-> [op |-> "get", k |-> k, v |-> Undefined,
                          hadRow |-> applicationSetting[k] # <<>>,
                          outcome |-> r.outcome, result |-> r.result],
                previous |-> runtimeCall.last]
  /\ UNCHANGED <<applicationSetting, defaultConfigs>>
  /\ UNCHANGED otherThanRuntime

\* lines 83-101: a call of set(k, v) from start to end: the upsert of the
\* row, then setCache
RuntimeSet ==
  /\ \E k \in RuntimeConfigKeys, v \in BOOLEAN :
       /\ applicationSetting' = [applicationSetting EXCEPT ![k] = <<JSONstringify(v)>>]
       /\ cache' = setCache(cache, k, v)
       /\ runtimeCall' =
            [last |-> [op |-> "set", k |-> k, v |-> <<v>>,
                       hadRow |-> applicationSetting[k] # <<>>,
                       outcome |-> "returned", result |-> Undefined],
             previous |-> runtimeCall.last]
  /\ UNCHANGED defaultConfigs
  /\ UNCHANGED otherThanRuntime

\* line 142: { ttl: 60 * 1000 }: an entry of the cache expires
CacheExpire ==
  /\ \E key \in CacheKeys :
       /\ cache[key] # Undefined
       /\ cache' = [cache EXCEPT ![key] = Undefined]
  /\ UNCHANGED <<applicationSetting, defaultConfigs, runtimeCall>>
  /\ UNCHANGED otherThanRuntime

NextRuntime == RuntimeGet \/ RuntimeSet \/ CacheExpire

InitSpecRuntime ==
  InitMergeIdle /\ InitDoc /\ InitDropIdle /\ InitGestureIdle /\ InitRewriteIdle
    /\ InitExtractIdle /\ InitRuntime /\ InitCopilotIdle /\ InitPortalIdle
    /\ InitTagIdle

SpecRuntime == InitSpecRuntime /\ [][NextRuntime]_vars

(***************************************************************************)
(* Claims about the runtime config store.                                  *)
(***************************************************************************)
\* C34 (as stated): a get(k) that follows a completed set(k, v) returns v,
\* for every key and for both values; it does not throw.
C34_GetAfterSetReturnsValue ==
  (/\ runtimeCall.last.op = "get"
   /\ runtimeCall.previous.op = "set"
   /\ runtimeCall.previous.k = runtimeCall.last.k) =>
    /\ runtimeCall.last.outcome = "returned"
    /\ runtimeCall.last.result = runtimeCall.previous.v

\* C35 (as stated): a get(k) for a key that has no stored row returns the
\* default of the key and does not throw, also when the default is false.
C35_GetWithoutRowReturnsDefault ==
  (runtimeCall.last.op = "get" /\ ~runtimeCall.last.hadRow) =>
    /\ runtimeCall.last.outcome = "returned"
    /\ runtimeCall.last.result = <<defaultConfigs[runtimeCall.last.k]>>

(***************************************************************************)
(* CopilotController: chat, chatStream, chatWorkflow, chatImagesStream and *)
(* beforeApplicationShutdown.                                              *)
(***************************************************************************)
Endpoints == {"chat", "chatStream", "chatWorkflow", "chatImagesStream"}

StreamEndpoints == Endpoints \ {"chat"}

Users == {"u1", "u2"}

\* the session of u1; s0 is the id of no session
SessionIds == {"s1", "s0"}

\* a request: the endpoint, the user, the session id and the query
\* parameters messageId and retry; where the handler is; history: what it
\* did to the session and to the provider, whether the counter was
\* incremented for it and how often it was decremented for it
Request(endpoint, user, sessionId, messageId, retry) ==
  [endpoint |-> endpoint, user |-> user, sessionId |-> sessionId,
   messageId |-> messageId, retry |-> retry, pc |-> "checkRequest",
   error |-> "none", did |-> {}, counted |-> FALSE, decrements |-> 0]

\* the requests a client can make; retry is read by chat and chatStream
NewRequests ==
  {Request(e, u, sid, m, r) :
     e \in Endpoints, u \in Users, sid \in SessionIds, m \in BOOLEAN, r \in BOOLEAN}
  \ {Request(e, u, sid, m, TRUE) :
       e \in {"chatWorkflow", "chatImagesStream"}, u \in Users, sid \in SessionIds,
       m \in BOOLEAN}

\* the session s1 is of the user u1
InitCopilot ==
  /\ ongoingStreamCount = 0
  /\ requests = <<>>
  /\ chatSessions = [s1 |-> [userId |-> "u1", writes |-> {}]]
  /\ shutdownPc = "idle"

otherThanCopilot ==
  <<mergeVars, docVars, dropVars, gestureVars, rewriteVars, extractVars,
    runtimeVars, portalVars, tagVars>>

\* a request reaches one of the chat endpoints
Arrive ==
  /\ Len(requests) < MaxRequests
  /\ \E req \in NewRequests : requests' = Append(requests, req)
  /\ UNCHANGED <<ongoingStreamCount, chatSessions, shutdownPc>>
  /\ UNCHANGED otherThanCopilot

\* lines 219, 274 and 447: chat and chatStream call checkRequest through
\* chooseTextProvider, chatImagesStream calls it itself; chatWorkflow (lines
\* 346-348) goes to appendSessionMessage at once
checksRequest(endpoint) == endpoint # "chatWorkflow"

\* lines 96-99: checkRequest on the session
sessionOf(sessions, sessionId, userId) ==
  sessionId \in DOMAIN sessions /\ sessions[sessionId].userId = userId

\* the request ends with an error: chat throws it (lines 250-258), the stream
\* endpoints return mapSseError (lines 330-333, 429-432, 520-523)
Rejected(req, error) == [req EXCEPT !.pc = "rejected", !.error = error]

\* lines 90-138, 447-460: checkRequest, then the choice of the provider,
\* which can find none
CheckRequest(i) ==
  /\ requests[i].pc = "checkRequest"
  /\ LET req == requests[i]
     IN IF ~checksRequest(req.endpoint)
        THEN requests' = [requests EXCEPT ![i].pc = "appendSessionMessage"]
        ELSE IF ~sessionOf(chatSessions, req.sessionId, req.user)
        THEN requests' = [requests EXCEPT ![i] = Rejected(req, "CopilotSessionNotFound")]
        ELSE \E provider \in BOOLEAN :
               requests' =
                 [requests EXCEPT ![i] =
                    IF provider THEN [req EXCEPT !.pc = "appendSessionMessage"]
                    ELSE Rejected(req, "NoCopilotProviderAvailable")]
  /\ UNCHANGED <<ongoingStreamCount, chatSessions, shutdownPc>>
  /\ UNCHANGED otherThanCopilot

\* lines 150-159: what appendSessionMessage does to the session it found
writesOfAppend(messageId, retry) ==
  (IF ~messageId \/ retry THEN {"revertLatestMessage"} ELSE {})
  \cup (IF messageId THEN {"pushByMessageId"} ELSE {})

Written(session, ops, user) ==
  [session EXCEPT !.writes = @ \cup {[op |-> op, by |-> user] : op \in ops}]

\* lines 140-162: appendSessionMessage(sessionId, messageId, retry)
AppendSessionMessage(i) ==
  /\ requests[i].pc = "appendSessionMessage"
  /\ LET req == requests[i]
         ops == writesOfAppend(req.messageId, req.retry)
     IN IF req.sessionId \notin DOMAIN chatSessions
        THEN /\ requests' =
                  [requests EXCEPT ![i] = Rejected(req, "CopilotSessionNotFound")]
             /\ UNCHANGED chatSessions
        ELSE /\ chatSessions' =
                  [chatSessions EXCEPT
                     ![req.sessionId] = Written(@, ops, req.user)]
             /\ requests' =
                  [requests EXCEPT ![i].did = @ \cup ops,
                                   ![i].pc = IF req.endpoint = "chat"
                                             THEN "generateText" ELSE "start"]
  /\ UNCHANGED <<ongoingStreamCount, shutdownPc>>
  /\ UNCHANGED otherThanCopilot

\* lines 233-249: chat: provider.generateText, then session.push and
\* session.save; or the generation fails
GenerateText(i) ==
  /\ requests[i].pc = "generateText"
  /\ LET req == requests[i]
     IN \E generated \in BOOLEAN :
          IF generated
          THEN /\ chatSessions' =
                    [chatSessions EXCEPT
                       ![req.sessionId] = Written(@, {"push", "save"}, req.user)]
               /\ requests' =
                    [requests EXCEPT
                       ![i].did = @ \cup {"generate", "push", "save"},
                       ![i].pc = "returned"]
          ELSE /\ requests' =
                    [requests EXCEPT
                       ![i] = Rejected([req EXCEPT !.did = @ \cup {"generate"}],
                                       "CopilotFailedToGenerateText")]
               /\ UNCHANGED chatSessions
  /\ UNCHANGED <<ongoingStreamCount, shutdownPc>>
  /\ UNCHANGED otherThanCopilot

\* ongoingStreamCount$.next(value): a subject that was completed (line 87)
\* takes no value any more
nextCount(pc, count, value) == IF pc = "done" THEN count ELSE value

\* lines 324-326, 423-425, 514-516: finalize
finalizeCount(pc, count) == nextCount(pc, count, count - 1)

\* lines 288-333, 361-432, 473-523: the counter is incremented, then the
\* stream is set up (session.finish, the call of the provider or of the
\* workflow, the pipe with finalize) and returned to be subscribed; the
\* set-up can throw, and the catch returns mapSseError
StartStream(i) ==
  /\ requests[i].pc = "start"
  /\ ongoingStreamCount' = nextCount(shutdownPc, ongoingStreamCount,
                                     ongoingStreamCount + 1)
  /\ \E thrown \in BOOLEAN :
       requests' =
         [requests EXCEPT
            ![i] = [(IF thrown THEN Rejected(@, "thrownInSetup")
                     ELSE [@ EXCEPT !.pc = "streaming", !.did = @ \cup {"generate"}])
                    EXCEPT !.counted = shutdownPc # "done"]]
  /\ UNCHANGED <<chatSessions, shutdownPc>>
  /\ UNCHANGED otherThanCopilot

\* the stream ends: the source completed (the answer is pushed to the session
\* and saved, lines 305-316), it failed (catchError), or the client went away
\* and the subscription was closed; finalize runs in each case
EndStream(i) ==
  /\ requests[i].pc = "streaming"
  /\ LET req == requests[i]
     IN \E how \in {"completed", "errored", "aborted"} :
          /\ chatSessions' =
               IF how = "completed"
               THEN [chatSessions EXCEPT
                       ![req.sessionId] = Written(@, {"push", "save"}, req.user)]
               ELSE chatSessions
          /\ requests' =
               [requests EXCEPT
                  ![i].pc = "ended",
                  ![i].error = IF how = "errored" THEN "thrownInStream" ELSE "none",
                  ![i].did = IF how = "completed" THEN @ \cup {"push", "save"} ELSE @,
                  ![i].decrements =
                     IF finalizeCount(shutdownPc, ongoingStreamCount) # ongoingStreamCount
                     THEN @ + 1 ELSE @]
  /\ ongoingStreamCount' = finalizeCount(shutdownPc, ongoingStreamCount)
  /\ UNCHANGED shutdownPc
  /\ UNCHANGED otherThanCopilot

\* line 80: the application calls beforeApplicationShutdown, which subscribes
\* to the counter
BeforeApplicationShutdown ==
  /\ shutdownPc = "idle"
  /\ shutdownPc' = "waiting"
  /\ UNCHANGED <<ongoingStreamCount, requests, chatSessions>>
  /\ UNCHANGED otherThanCopilot

\* lines 81-86: filter(count => count === 0), take(1): the promise awaited
\* is resolved at the first 0 the counter shows
ShutdownSeesZero ==
  /\ shutdownPc = "waiting"
  /\ ongoingStreamCount = 0
  /\ shutdownPc' = "resolved"
  /\ UNCHANGED <<ongoingStreamCount, requests, chatSessions>>
  /\ UNCHANGED otherThanCopilot

\* line 87: the handler goes on after the await, completes the subject and
\* returns
ShutdownCompletes ==
  /\ shutdownPc = "resolved"
  /\ shutdownPc' = "done"
  /\ UNCHANGED <<ongoingStreamCount, requests, chatSessions>>
  /\ UNCHANGED otherThanCopilot

RequestStep(i) ==
  \/ CheckRequest(i)
  \/ AppendSessionMessage(i)
  \/ GenerateText(i)
  \/ StartStream(i)
  \/ EndStream(i)

NextCopilot ==
  \/ Arrive
  \/ \E i \in 1..Len(requests) : RequestStep(i)
  \/ BeforeApplicationShutdown
  \/ ShutdownSeesZero
  \/ ShutdownCompletes

InitSpecCopilot ==
  InitMergeIdle /\ InitDoc /\ InitDropIdle /\ InitGestureIdle /\ InitRewriteIdle
    /\ InitExtractIdle /\ InitRuntimeIdle /\ InitCopilot /\ InitPortalIdle
    /\ InitTagIdle

SpecCopilot == InitSpecCopilot /\ [][NextCopilot]_vars

\* every handler that can go on goes on, every stream ends, and the shutdown
\* hook goes on when it can
SpecCopilotFair ==
  /\ SpecCopilot
  /\ \A i \in 1..MaxRequests :
       WF_vars(i <= Len(requests) /\ RequestStep(i))
  /\ WF_vars(ShutdownSeesZero)
  /\ WF_vars(ShutdownCompletes)

(***************************************************************************)
(* Claims about the copilot controller.                                    *)
(***************************************************************************)
\* the requests whose handler and stream are over
Finished == {"rejected", "returned", "ended"}

RequestIds == 1..Len(requests)

\* C36 (as stated): whatever the interleaving of the stream endpoints, the
\* counter is never negative and is the number of the streams it was
\* incremented for and not yet decremented for, and for every such stream
\* that is over, the one whose set-up threw after the increment included, it
\* was decremented exactly once.
C36_CounterMatchesOngoingStreams ==
  /\ ongoingStreamCount >= 0
  /\ ongoingStreamCount =
       Cardinality({i \in RequestIds :
                      requests[i].counted /\ requests[i].decrements = 0})
  /\ \A i \in RequestIds :
       (requests[i].counted /\ requests[i].pc \in Finished) =>
         requests[i].decrements = 1

\* C37 (as stated): beforeApplicationShutdown returns at no moment at which a
\* stream is going on, and when it was called and every request is over, it
\* returns in the end.
C37_ShutdownWaitsForStreams ==
  /\ [][(shutdownPc # "done" /\ shutdownPc' = "done") =>
          \A i \in RequestIds : requests[i].pc # "streaming"]_vars
  /\ (/\ shutdownPc # "idle"
      /\ \A i \in RequestIds : requests[i].pc \in Finished) ~> (shutdownPc = "done")

\* C38 (as stated): a request of any chat endpoint for a session of another
\* user gets no further than the check: it is rejected with session-not-found
\* and has neither reverted, appended to or saved the session nor started a
\* generation.
C38_ForeignSessionRejectedFirst ==
  \A i \in RequestIds :
    LET req == requests[i]
    IN (/\ req.sessionId \in DOMAIN chatSessions
        /\ chatSessions[req.sessionId].userId # req.user) =>
         /\ req.did = {}
         /\ req.pc \in {"checkRequest", "rejected"}
         /\ req.pc = "rejected" => req.error = "CopilotSessionNotFound"

(***************************************************************************)
(* The lit portals: createLitPortalAnchor, LitReactPortal and the callback *)
(* of useLitPortalFactory.                                                 *)
(***************************************************************************)
\* the ids nanoid() hands out
PortalIds == {"a", "b", "c"}

\* the <lit-react-portal> elements of the page; the template of one anchor
\* can be rendered at two places
Anchors == {"el1", "el2"}

Lifecycles == {"connectedCallback", "disconnectedCallback"}

NoLifecycle == [last |-> "none", previous |-> "none"]

\* a provider was mounted: useState<LitPortal[]>([])
InitPortal ==
  /\ portals = <<>>
  /\ listeners = {}
  /\ lifecycles = [id \in PortalIds |-> NoLifecycle]

otherThanPortal ==
  <<mergeVars, docVars, dropVars, gestureVars, rewriteVars, extractVars,
    runtimeVars, copilotVars, tagVars>>

\* lines 28-42 and 82-103: the factory is called: createLitPortalAnchor
\* takes a new id and adds the listener of that id
CreateLitPortalAnchor ==
  /\ \E id \in PortalIds \ listeners : listeners' = listeners \cup {id}
  /\ UNCHANGED <<portals, lifecycles>>
  /\ UNCHANGED otherThanPortal

\* portals.filter(p => p.id !== portalId)
withoutPortal(list, portalId) == SelectSeq(list, LAMBDA p : p.id # portalId)

\* (mutant) the entry is appended to the list as it is
connectPortal_KeepOld(list, portalId, anchor) ==
  Append(list, [id |-> portalId, anchor |-> anchor])

\* lines 91-98: the list without the entries of the id, then the new entry
\* with the portal into the anchor
connectPortal(list, portalId, anchor) ==
  Append(withoutPortal(list, portalId), [id |-> portalId, anchor |-> anchor])

\* lines 88-102: the callback of the anchor, as the state updater runs it
updatePortals(list, lifecycle, portalId, anchor) ==
  IF lifecycle = "connectedCallback" THEN connectPortal(list, portalId, anchor)
  ELSE withoutPortal(list, portalId)

\* lines 58-64 and 32-37: an element with the portal id is connected or
\* disconnected: every listener is called, the one of the id runs the
\* callback
LifecycleCallback ==
  /\ \E lifecycle \in Lifecycles, portalId \in listeners, anchor \in Anchors :
       /\ portals' = updatePortals(portals, lifecycle, portalId, anchor)
       /\ lifecycles' =
            [lifecycles EXCEPT
               ![portalId] = [last |-> lifecycle, previous |-> @.last]]
  /\ UNCHANGED listeners
  /\ UNCHANGED otherThanPortal

NextPortal == CreateLitPortalAnchor \/ LifecycleCallback

InitSpecPortal ==
  InitMergeIdle /\ InitDoc /\ InitDropIdle /\ InitGestureIdle /\ InitRewriteIdle
    /\ InitExtractIdle /\ InitRuntimeIdle /\ InitCopilotIdle /\ InitPortal
    /\ InitTagIdle

SpecPortal == InitSpecPortal /\ [][NextPortal]_vars

(***************************************************************************)
(* Claims about the lit portals.                                           *)
(***************************************************************************)
EntriesOf(portalId) == {i \in 1..Len(portals) : portals[i].id = portalId}

\* C39: after any sequence of connectedCallback and disconnectedCallback
\* events on the anchors the factory made, the portals list holds at most
\* one entry per portal id, and it holds an entry of an id exactly when the
\* last event of that id was connectedCallback.
C39_OneEntryPerConnectedPortal ==
  \A id \in PortalIds :
    /\ Cardinality(EntriesOf(id)) <= 1
    /\ EntriesOf(id) # {} <=> lifecycles[id].last = "connectedCallback"

\* C39 witness: one anchor was connected twice in a row and has one entry,
\* the newest of the list, another was connected and then disconnected and
\* has none, a third is connected.
C39_Witness ==
  /\ Len(portals) = 2
  /\ \E id \in PortalIds :
       /\ lifecycles[id] = [last |-> "connectedCallback",
                            previous |-> "connectedCallback"]
       /\ portals[2].id = id
  /\ \E id \in PortalIds :
       lifecycles[id] = [last |-> "disconnectedCallback",
                         previous |-> "connectedCallback"]

(***************************************************************************)
(* Tag: tag(pageId) and untag(pageId).                                     *)
(***************************************************************************)
\* this.id, and the ids of the other tags of the workspace
ThisTag == "t1"

TagIds == {"t1", "t2", "t3"}

\* the pages of the workspace
Pages == {"page1", "page2"}

\* the ids a call can pass: the pages, and the id of no page
PageIds == Pages \cup {"page0"}

\* the tag lists without a duplicate
RECURSIVE TagLists(_)
TagLists(n) ==
  IF n = 0 THEN {<<>>}
  ELSE LET shorter == TagLists(n - 1)
       IN shorter \cup {Append(l, t) : l \in shorter, t \in TagIds}

NoDuplicate(tags) ==
  \A i, j \in 1..Len(tags) : tags[i] = tags[j] => i = j

InitTag ==
  /\ docMetas \in [Pages -> {l \in TagLists(Cardinality(TagIds)) : NoDuplicate(l)}]
  /\ tagCall = NoTagCall

otherThanTag ==
  <<mergeVars, docVars, dropVars, gestureVars, rewriteVars, extractVars,
    runtimeVars, copilotVars, portalVars>>

\* (mutant) the page is never taken for tagged
includes_Never(tags, id) == FALSE

\* lines 115 and 126: pageMeta.tags.includes(this.id)
includes(tags, id) == \E i \in 1..Len(tags) : tags[i] = id

\* line 131: pageMeta.tags.filter(tagId => tagId !== this.id)
filterOut(tags, id) == SelectSeq(tags, LAMBDA tagId : tagId # id)

\* properties.updatePageTags(pageId, tags)
updatePageTags(metas, pageId, tags) == [metas EXCEPT ![pageId] = tags]

\* what a call leaves in the history: the tags the page had
TagCall(op, pageId) ==
  [op |-> op, pageId |-> pageId,
   before |-> IF pageId \in DOMAIN docMetas THEN docMetas[pageId] ELSE <<>>]

\* lines 110-119: tag(pageId)
Tag ==
  /\ \E pageId \in PageIds :
       /\ docMetas' =
            IF pageId \notin DOMAIN docMetas THEN docMetas
            ELSE IF includes(docMetas[pageId], ThisTag) THEN docMetas
            ELSE updatePageTags(docMetas, pageId, Append(docMetas[pageId], ThisTag))
       /\ tagCall' = TagCall("tag", pageId)
  /\ UNCHANGED otherThanTag

\* lines 121-133: untag(pageId)
Untag ==
  /\ \E pageId \in PageIds :
       /\ docMetas' =
            IF pageId \notin DOMAIN docMetas THEN docMetas
            ELSE IF ~includes(docMetas[pageId], ThisTag) THEN docMetas
            ELSE updatePageTags(docMetas, pageId, filterOut(docMetas[pageId], ThisTag))
       /\ tagCall' = TagCall("untag", pageId)
  /\ UNCHANGED otherThanTag

NextTag == Tag \/ Untag

InitSpecTag ==
  InitMergeIdle /\ InitDoc /\ InitDropIdle /\ InitGestureIdle /\ InitRewriteIdle
    /\ InitExtractIdle /\ InitRuntimeIdle /\ InitCopilotIdle /\ InitPortalIdle
    /\ InitTag

SpecTag == InitSpecTag /\ [][NextTag]_vars

(***************************************************************************)
(* Claims about Tag.                                                       *)
(***************************************************************************)
Positions(tags, id) == {i \in 1..Len(tags) : tags[i] = id}

\* the other ids of a list, in their order
OtherTags(tags) == SelectSeq(tags, LAMBDA t : t # ThisTag)

\* C40: after any sequence of tag and untag calls on a page whose tag list
\* had no duplicate, the list holds the id of this tag at most once; tag of a
\* tagged page changes nothing and tag of another page appends the id; untag
\* takes the id out; the other ids and their order are as before; on an id
\* of no page both change nothing.
C40_TagAndUntag ==
  /\ \A p \in DOMAIN docMetas : Cardinality(Positions(docMetas[p], ThisTag)) <= 1
  /\ DOMAIN docMetas = Pages
  /\ tagCall.pageId \in DOMAIN docMetas =>
       LET tags == docMetas[tagCall.pageId]
       IN /\ OtherTags(tags) = OtherTags(tagCall.before)
          /\ tagCall.op = "tag" =>
               /\ Positions(tags, ThisTag) # {}
               /\ Positions(tagCall.before, ThisTag) # {} => tags = tagCall.before
               /\ Positions(tagCall.before, ThisTag) = {} =>
                    tags = Append(tagCall.before, ThisTag)
          /\ tagCall.op = "untag" =>
               /\ Positions(tags, ThisTag) = {}
               /\ tags = OtherTags(tagCall.before)
  /\ (tagCall.op # "none" /\ tagCall.pageId \notin DOMAIN docMetas) =>
       /\ tagCall.before = <<>>
       /\ \A p \in Pages : NoDuplicate(docMetas[p])

\* C40 witness: the page had this tag between two others and untag took it
\* out.
C40_Witness ==
  /\ tagCall = [op |-> "untag", pageId |-> "page1", before |-> <<"t2", "t1", "t3">>]
  /\ docMetas["page1"] = <<"t2", "t3">>

====
